---------------------------- MODULE Spec2Model ----------------------------
(***************************************************************************)
(* A model of run.Group (tetratelabs/run): unit registration, the Config   *)
(* phase (RunConfig), the Run phase (Initialize, PreRun, feeding the       *)
(* services to the oklog/run supervisor) and the supervisor's "first actor *)
(* to return wins" teardown.                                               *)
(*                                                                         *)
(* The repository holds two variants of Group:                             *)
(*   "oss" : src/unnamed/part_008, with ErrRequestedShutdown and the       *)
(*           hasServices flag;                                             *)
(*   "hs"  : src/group.go (from line 223 on), with the implicit health     *)
(*           service, DisableHealthService and the logOptions unit.        *)
(* The variant is fixed in the initial state and every action follows the  *)
(* code of that variant.                                                   *)
(***************************************************************************)
EXTENDS Integers, Sequences, FiniteSets, TLC

VARIABLES
    app,           \* the application: its units, their options, its command lines
    variant,       \* which Group implementation: "oss" or "hs"
    disableHS,     \* Group.DisableHealthService (hs variant)
    gi, gn, gc, gp, gs,   \* Group.i, .n, .c, .p, .s : sequences of units, 0 = nil
    configured,    \* Group.configured
    hsRegistered,  \* Group.hsRegistered
    pc,            \* where the caller's thread stands
    api,           \* the exported method being executed: "none", "RunConfig", "Run"
    argv,          \* the command line handed to RunConfig / Run
    gf,            \* Group.f : the merged flag set, in order of addition
    dest,          \* the unit options whose destination a parse has written
    idx, lim,      \* loop index and the length the range statement fixed
    err,           \* the err variable of RunConfig (accumulated Validate errors)
    hasServices,   \* the hasServices local of Run (oss variant)
    actors,        \* the units fed to run.Group, in order
    sv,            \* per actor: "spawned", "serving", "returned"
    chan,          \* the supervisor's buffered errors channel
    first,         \* the first value received from the channel
    rcResult,      \* what the last direct RunConfig call returned
    runResult,     \* what Run returned
    nInit, nName, nFlagSet, nValidate, nPreRun, nServe, nServeRet, nStop,
                   \* per unit: how often the group invoked the callback
    nDereg, nCfg,  \* how many Deregister / direct RunConfig calls so far
    vlog,          \* history: the Validate calls of the current Config phase
    preFail,       \* history: the first PreRun that returned an error
    firstRet,      \* history: the first value a Serve returned
    lastRet,       \* history: the latest value a Serve returned
    handed,        \* history: the service list when Run reached its service loop
    ret,           \* what the application's latest Register / Deregister returned
    gone,          \* history: the units deregistered before the services were
                   \* handed over and not registered since
    gname,         \* Group.Name
    nlog,          \* history: the GroupName calls of the current Config phase
    checkers,      \* healthService.checkers: the units whose Health is asked
    hstatus,       \* healthService.status
    listening,     \* the health server is accepting requests
    report,        \* the latest answer of the health endpoint
    hserver,       \* healthService.server: "nil", "set", or "shutdown"
    listing,       \* what the latest ListUnits call returned
    lcCtx,         \* lifecycle.ctx: "live" or "cancelled"
    sigCancel,     \* signal Handler.cancel: "nil", "open" or "closed"
    sigq,          \* signal Handler.signal: the signals buffered in it
    sigLast,       \* history: what the handler's Serve took last
    irqCh,         \* irqSvc.irq: "open", or "nil" once closed
    irqMu,         \* irqSvc.mu: 0 when free, else the Close call holding it
    irqServe,      \* where irqSvc.Serve stands
    closers,       \* where each Close call of the application stands
    nCfn,          \* how often irqSvc called its cleanup function
    nDirect        \* per unit: GracefulStop calls made by the application

vars == << app, variant, disableHS, gi, gn, gc, gp, gs, configured, hsRegistered,
           pc, api, argv, gf, dest, idx, lim, err, hasServices, actors, sv, chan, first,
           rcResult, runResult, nInit, nName, nFlagSet, nValidate, nPreRun,
           nServe, nServeRet, nStop, nDereg, nCfg, vlog, preFail, firstRet,
           lastRet, handed, ret, gone, gname, nlog,
           checkers, hstatus, listening, report, hserver, listing,
           lcCtx, sigCancel, sigq, sigLast, irqCh, irqMu, irqServe, closers,
           nCfn, nDirect >>

lists == << gi, gn, gc, gp, gs >>
counters == << nInit, nName, nFlagSet, nValidate, nPreRun, nServe, nServeRet, nStop >>
superv == << actors, sv, chan, first >>
hist == << vlog, preFail, firstRet, lastRet, handed >>
healthv == << checkers, hstatus, listening, report >>
sigv == << sigCancel, sigq, sigLast >>
irqv == << irqCh, irqMu, irqServe, closers, nCfn >>
grpv == << variant, disableHS, lists, configured, hsRegistered, pc, api, argv,
          gf, dest, idx, lim, err, hasServices, superv, rcResult, runResult,
          counters, nDereg, nCfg, hist, ret, gone, gname, nlog >>
svcv == << hserver, lcCtx, sigv, irqv >>
libv == << svcv, listing, nDirect >>

-----------------------------------------------------------------------------
(* Bounds of the model *)

\* MaxLen: Register is taken only while the phase lists it appends to hold
\* fewer than MaxLen entries.  MaxDereg: how many Deregister calls are made.
\* MaxCfg: how many direct RunConfig calls are made.
NUnits == 3
MaxLen == 2
MaxDereg == 1
MaxCfg == 1

-----------------------------------------------------------------------------
(* Units and their capabilities *)

HealthUnit == 8
LogUnit == 9

\* The services shipped with the library: NewLifecycle(), signal.Handler,
\* test.NewIRQService().
LifecycleUnit == 10
SignalUnit == 11
IrqUnit == 12

\* The kinds of units (capability sets) the model distinguishes.
UnitKinds == 6

UserUnits == 1 .. NUnits
AllUnits == UserUnits \cup (1 .. UnitKinds) \cup {HealthUnit, LogUnit}
               \cup {LifecycleUnit, SignalUnit, IrqUnit}

\* The interfaces a unit satisfies (the type assertions of Register).
\* Unit 1 is the test suite's `service` (every phase), unit 2 its
\* disablerService (Config + PreRunner), unit 3 a TestSvc (Service only),
\* unit 4 a bare Unit, unit 5 a NewPreRunner, unit 6 the test suite's
\* flagTestConfig (Config only); further units repeat these.
Caps(u) ==
    IF u = HealthUnit THEN {"C", "P", "S"}
    ELSE IF u = LogUnit THEN {"C"}
    ELSE IF u = LifecycleUnit THEN {"S"}
    ELSE IF u = SignalUnit THEN {"P", "S"}
    ELSE IF u = IrqUnit THEN {"S"}
    ELSE CASE u % UnitKinds = 1 -> {"I", "N", "C", "P", "S"}
           [] u % UnitKinds = 2 -> {"C", "P"}
           [] u % UnitKinds = 3 -> {"S"}
           [] u % UnitKinds = 4 -> {}
           [] u % UnitKinds = 5 -> {"P"}
           [] OTHER             -> {"C"}

-----------------------------------------------------------------------------
(* Error values *)

\* An error value: k is its shape, u the unit a pre-run wrapper names,
\* es the errors it carries (each with the unit that produced it), fmt the
\* multierror formatter set on it.
MkErr(k, u, es, f) == [k |-> k, u |-> u, es |-> es, fmt |-> f]

NilErr == MkErr("nil", 0, << >>, "none")

\* An error value returned by a callback of unit u.  b is "e" for an ordinary
\* error, "shutdown" for ErrRequestedShutdown, "wshutdown" for an error that
\* wraps ErrRequestedShutdown, "bail" for ErrBailEarlyRequest.
Plain(u, b) == MkErr("plain", 0, << [u |-> u, b |-> b] >>, "none")

ErrBailEarlyRequest == Plain(0, "bail")
ErrParse == Plain(0, "parse")
ErrLogConfigure == Plain(LogUnit, "e")
ErrNoExplicit == MkErr("synth", 0, << >>, "none")

\* "No value yet" in the history variables.
NoneYet == MkErr("none", 0, << >>, "none")

\* The error values user code can return: ErrRequestedShutdown exists in
\* the oss variant only.
ErrKinds(v) == IF v = "oss" THEN {"e", "shutdown", "bail"} ELSE {"e", "bail"}

\* The error values Serve is given to return: an ordinary error,
\* ErrRequestedShutdown and an error wrapping it.
ServeKinds(v) == IF v = "oss" THEN {"e", "shutdown", "wshutdown"} ELSE {"e"}


\* multierror.Append(err, vErr): the accumulated multi-error with vErr added.
MultiAppend(e, v) ==
    IF e.k = "nil" THEN MkErr("multi", 0, v.es, "default")
    ELSE MkErr("multi", 0, e.es \o v.es, e.fmt)

\* multierror.SetFormatter(err, ListFormatFunc): sets the formatter of a
\* multi-error and hands any other error back unchanged.
SetFormatter(e) == IF e.k = "multi" THEN [e EXCEPT !.fmt = "list"] ELSE e

\* errors.Is(err, ErrRequestedShutdown)
\* Mutant: the test for a requested shutdown is never true.
IsRequestedShutdownNever(e) == FALSE

\* Mutant: any non-nil error counts as a requested shutdown.
IsRequestedShutdownAny(e) == e # NilErr

\* errors.Is(err, ErrRequestedShutdown)
IsRequestedShutdown(e) ==
    \E j \in DOMAIN e.es : e.es[j].b \in {"shutdown", "wshutdown"}

\* fmt.Errorf("pre-run %s: %w", name, err)
PreRunError(u, e) == MkErr("prerun", u, e.es, "none")

\* The deferred function of RunConfig.
RunConfigDeferred(e) ==
    IF e # NilErr /\ e # ErrBailEarlyRequest THEN SetFormatter(e) ELSE e

\* The deferred function of Run, oss variant.
RunDeferredOSS(e, hasSvc) ==
    IF e = NilErr THEN (IF hasSvc THEN ErrNoExplicit ELSE NilErr)
    ELSE IF IsRequestedShutdown(e) THEN NilErr
    ELSE SetFormatter(e)

\* The deferred function of Run, hs variant.
RunDeferredHS(e) == IF e # NilErr THEN SetFormatter(e) ELSE e

RunDeferred(e) ==
    IF variant = "oss" THEN RunDeferredOSS(e, hasServices) ELSE RunDeferredHS(e)

-----------------------------------------------------------------------------
(* Helpers on the phase lists *)

\* The first non-nil slot of list at or after position from and within the
\* length n the loop fixed; 0 when there is none.
NextIdx(list, from, n) ==
    LET m == IF n <= Len(list) THEN n ELSE Len(list)
        S == {j \in from .. m : list[j] # 0}
    IN IF S = {} THEN 0 ELSE CHOOSE j \in S : \A k \in S : j <= k

\* Mutant: the scan stops at the first slot that holds d (a break after
\* the assignment).
NulledFirst(list, d) ==
    LET S == {j \in DOMAIN list : list[j] = d} IN
    IF d = 0 \/ S = {} THEN list
    ELSE [k \in DOMAIN list |->
            IF k = (CHOOSE j \in S : \A i \in S : j <= i) THEN 0 ELSE list[k]]

\* Mutant: the slots that hold d are cut out of the list.
Removed(list, d) == SelectSeq(list, LAMBDA x : x # d \/ d = 0)

\* The slots of list that hold unit d set to nil (d = 0: nothing to do).
RECURSIVE Nulled(_, _)
Nulled(list, d) ==
    IF list = << >> THEN << >>
    ELSE << (IF Head(list) = d THEN 0 ELSE Head(list)) >> \o Nulled(Tail(list), d)

SetNil(list, j) == [k \in 1 .. Len(list) |-> IF k = j THEN 0 ELSE list[k]]

AppendIf(list, u, c) == IF c THEN Append(list, u) ELSE list

Inc(f, u) == [f EXCEPT ![u] = @ + 1]

NonNil(list) == SelectSeq(list, LAMBDA x : x # 0)

Holds(list, u) == \E j \in DOMAIN list : list[j] = u

Zero == [u \in AllUnits |-> 0]

-----------------------------------------------------------------------------
(* Flag sets and command lines *)

\* An option of a flag set: long name and shorthand ("" for none).
Opt(l, s) == [l |-> l, s |-> s]

\* A flag of the merged set: an option and the unit whose destination it
\* writes (0: the group's own variables).
Flag(o, u) == [l |-> o.l, s |-> o.s, o |-> u]

\* gFS, "Common Service options": --name/-n, --version/-v, --help/-h and
\* the hidden --show-rungroup-units.
ReservedOptions ==
    << Opt("name", "n"), Opt("version", "v"), Opt("help", "h"),
       Opt("show-rungroup-units", "") >>

\* g.f right after g.f.AddFlagSet(gFS.FlagSet).
ReservedFlags == [i \in DOMAIN ReservedOptions |-> Flag(ReservedOptions[i], 0)]

\* The reserved flags that make RunConfig bail early.
BailFlags == {"help", "version", "show-rungroup-units"}

\* g.f.Lookup(name) != nil
Lookup(fset, name) == \E i \in DOMAIN fset : fset[i].l = name

\* The shorthand is already bound in the flag set.
ShorthandUsed(fset, sh) == sh # "" /\ \E i \in DOMAIN fset : fset[i].s = sh

\* Mutant: an option whose long name is already in the flag set replaces
\* the flag filed under that name (last registration wins).
RECURSIVE MergeLastWins(_, _, _)
MergeLastWins(fset, opts, u) ==
    IF opts = << >> THEN [f |-> fset, panic |-> FALSE]
    ELSE LET o == Head(opts) IN
         IF Lookup(fset, o.l)
         THEN MergeLastWins([k \in DOMAIN fset |->
                               IF fset[k].l = o.l /\ fset[k].o # 0
                               THEN Flag(o, u) ELSE fset[k]],
                            Tail(opts), u)
         ELSE IF ShorthandUsed(fset, o.s)
         THEN [f |-> Append(fset, Flag(o, u)), panic |-> TRUE]
         ELSE MergeLastWins(Append(fset, Flag(o, u)), Tail(opts), u)

\* fs[idx].VisitAll(func(f) { if g.f.Lookup(f.Name) != nil { return };
\* g.f.AddFlag(f) }) for the options opts of unit u.  AddFlag files the flag
\* under its long name and then panics when its shorthand is already bound.
RECURSIVE Merge(_, _, _)
Merge(fset, opts, u) ==
    IF opts = << >> THEN [f |-> fset, panic |-> FALSE]
    ELSE LET o == Head(opts) IN
         IF Lookup(fset, o.l) THEN Merge(fset, Tail(opts), u)
         ELSE IF ShorthandUsed(fset, o.s)
         THEN [f |-> Append(fset, Flag(o, u)), panic |-> TRUE]
         ELSE Merge(Append(fset, Flag(o, u)), Tail(opts), u)

\* path.Base(os.Args[0]), the name of a group whose Name was left empty,
\* and the value that --name / -n carries on the command line.
BinaryName == "bin"
NameArg == "X"

\* An argument of the command line: a flag given by its long name or by its
\* shorthand.
Long(n) == [k |-> "long", n |-> n]
Short(n) == [k |-> "short", n |-> n]

Matches(f, t) == IF t.k = "long" THEN f.l = t.n ELSE f.s = t.n

\* fset.Parse(args): the arguments are taken from left to right, each one
\* writes the destination of the flag it names, and the first one that
\* names no flag ends the parse with an error.  w collects the flags
\* written, as pairs << owner, long name >>.
RECURSIVE Parse(_, _, _)
Parse(fset, args, w) ==
    IF args = << >> THEN [ok |-> TRUE, w |-> w]
    ELSE LET m == {i \in DOMAIN fset : Matches(fset[i], Head(args))} IN
         IF m = {} THEN [ok |-> FALSE, w |-> w]
         ELSE LET i == CHOOSE i \in m : \A k \in m : i <= k IN
              Parse(fset, Tail(args), w \cup {<< fset[i].o, fset[i].l >>})

\* The options the FlagSet method of unit u returns.  The health service
\* has its address and endpoint; the logOptions unit attaches the options
\* of the log package, which stand here as one option.
OptionsOf(u) ==
    IF u = HealthUnit
    THEN << Opt("health-address", ""), Opt("health-endpoint", "") >>
    ELSE IF u = LogUnit THEN << Opt("log-options", "") >>
    ELSE app.opts[u]

\* Flag sets a Config unit may return: none, the test suite's
\* --flagtest/-f, one that also reuses a reserved long name, one that reuses
\* a reserved shorthand under a long name of its own.
FlagOptionSets ==
    { << >>,
      << Opt("flagtest", "f") >>,
      << Opt("flagtest", "f"), Opt("help", "") >>,
      << Opt("verbose", "v") >> }

\* The arguments command lines are made of.
FlagTokens ==
    { Long("help"), Short("h"), Long("version"), Short("v"),
      Long("show-rungroup-units"), Long("flagtest"), Short("f"),
      Long("non-existent"), Long("name"), Short("n") }

\* Command lines of at most two arguments.
FlagArgs ==
    { << >> } \cup { << t >> : t \in FlagTokens }
              \cup { << t1, t2 >> : t1 \in FlagTokens, t2 \in FlagTokens }

\* Applications of two Config units (one that is also Initializer, Namer,
\* PreRunner and Service, and a plain Config) with any of these flag sets,
\* started with any of these command lines.
FlagApps ==
    { [units |-> {1, 6}, opts |-> o, args |-> FlagArgs,
       late |-> {}, live |-> FALSE, maxDereg |-> MaxDereg, maxCfg |-> MaxCfg,
       checkers |-> {}, listens |-> TRUE] :
        o \in [{1, 6} -> FlagOptionSets] }

\* The command lines of the test suite: no flag, a bail-early flag, an
\* unknown flag.
MainArgs ==
    { << >>, << Long("help") >>, << Long("version") >>,
      << Long("show-rungroup-units") >>, << Long("non-existent") >> }

\* The application of the test suite: every Config unit has the option
\* --flagtest/-f (so two of them collide, as in TestDuplicateFlag).  Its
\* callbacks register no unit (late), it calls Deregister between the
\* group's calls and from callbacks only (live), MaxDereg times at most,
\* and calls RunConfig MaxCfg times at most.
MainApp ==
    [units |-> UserUnits,
     opts  |-> [u \in UserUnits |->
                  IF "C" \in Caps(u) THEN << Opt("flagtest", "f") >> ELSE << >>],
     args  |-> MainArgs,
     late  |-> {}, live |-> FALSE, maxDereg |-> MaxDereg, maxCfg |-> MaxCfg,
     checkers |-> {}, listens |-> TRUE]

\* Applications that use Register and Deregister at any time: one with a
\* unit of every capability, a bare unit and a plain Config unit, which
\* deregisters once more than the test suite does; and one whose callbacks
\* register a unit and which deregisters while the services run; and one
\* that calls RunConfig once more than the others.
LateApps ==
    { [units |-> {1, 4, 6},
       opts  |-> [u \in {1, 4, 6} |->
                    IF "C" \in Caps(u) THEN << Opt("flagtest", "f") >> ELSE << >>],
       args  |-> { << >> },
       late  |-> {}, live |-> FALSE, maxDereg |-> MaxDereg + 1,
       maxCfg |-> MaxCfg, checkers |-> {}, listens |-> TRUE],
      [units |-> {1, 3, 5},
       opts  |-> [u \in {1, 3, 5} |->
                    IF "C" \in Caps(u) THEN << Opt("flagtest", "f") >> ELSE << >>],
       args  |-> { << >> },
       late  |-> {1}, live |-> TRUE, maxDereg |-> MaxDereg,
       maxCfg |-> MaxCfg, checkers |-> {}, listens |-> TRUE],
      [units |-> {3},
       opts  |-> [u \in {3} |-> << >>],
       args  |-> { << >> },
       late  |-> {}, live |-> FALSE, maxDereg |-> MaxDereg,
       maxCfg |-> MaxCfg + 1, checkers |-> {}, listens |-> TRUE] }

-----------------------------------------------------------------------------
(* The health service *)

Range(list) == {list[j] : j \in DOMAIN list}

\* The status codes a checker reports (Running alone counts as healthy).
HealthCodes == {"Running", "Initializing", "ShuttingDown", "Failing"}

NoReport == [http |-> 0]

\* if c, ok := u.(health.Checker); ok : which units implement Checker is a
\* property of the application; the health service itself always does.
IsChecker(u) == u = HealthUnit \/ u \in app.checkers

\* Mutant: one healthy checker is enough for AllUp.
CheckServicesAnyUp(st) ==
    LET healthy == Cardinality({u \in DOMAIN st : st[u] = "Running"}) IN
    [code     |-> IF healthy > 0 THEN "AllUp" ELSE "AllDown",
     services |-> st]

\* checkServices, st being what each checker's Health() returned.
CheckServices(st) ==
    LET healthy == Cardinality({u \in DOMAIN st : st[u] = "Running"}) IN
    [code     |-> IF healthy = Cardinality(DOMAIN st) THEN "AllUp"
                  ELSE IF healthy = 0 THEN "AllDown"
                  ELSE "Partial",
     services |-> st]

\* Mutant: a partial failure is answered with 200.
HttpStatusPartialOk(code, marshalFails) ==
    IF marshalFails THEN 500
    ELSE IF code \in {"AllDown"} THEN 503
    ELSE 200

\* The status code ServeHTTP writes.
HttpStatus(code, marshalFails) ==
    IF marshalFails THEN 500
    ELSE IF code \in {"AllDown", "Partial"} THEN 503
    ELSE 200

\* healthService.PreRun
HealthPreRun ==
    /\ hstatus' = "Initializing"
    /\ checkers' = {}

\* healthService.register for each unit of us
HealthRegister(us) == checkers' = checkers \cup {u \in us : IsChecker(u)}

\* healthService.Serve from s.listen() to s.server.Serve(listener): when
\* listen fails Serve returns at once and the status is not written; a
\* server that was shut down before accepts nothing.
HealthServe ==
    IF app.listens
    THEN hstatus' = "Running" /\ listening' = (hserver # "createdShut")
    ELSE UNCHANGED << hstatus, listening >>

\* http.Server.Shutdown: a server that serves stops serving, a server that
\* does not serve yet will refuse to.
Shutdown(srv) ==
    CASE srv = "created" -> "createdShut"
      [] srv = "serving" -> "closed"
      [] OTHER           -> srv

\* healthService.GracefulStop: the status, then Shutdown when s.server is
\* set.  s.server is written by the goroutine of Serve and read here with
\* no synchronisation between the two: the read sees the server or nil.
HealthGracefulStop == hstatus' = "ShuttingDown"

HealthShutdown == hserver' \in {hserver, Shutdown(hserver)}

\* An application with two checkers, a Service and a PreRunner, whose
\* health port is free or taken.
HealthApps ==
    { [units |-> {3, 5},
       opts  |-> [u \in {3, 5} |-> << >>],
       args  |-> { << >> },
       late  |-> {}, live |-> FALSE, maxDereg |-> 0, maxCfg |-> MaxCfg,
       checkers |-> {3, 5}, listens |-> l] : l \in BOOLEAN }

\* The harness of TestHealthServiceStatus: a health service on its own and
\* any of the units as its checkers.
ProbeApp ==
    [units |-> UserUnits,
     opts  |-> [u \in UserUnits |-> << >>],
     args  |-> { << >> },
     late  |-> {}, live |-> FALSE, maxDereg |-> 0, maxCfg |-> 0,
     checkers |-> UserUnits, listens |-> TRUE]

-----------------------------------------------------------------------------
(* The services shipped with the library *)

\* The Close calls an application makes at most.
MaxClose == 2

\* The GracefulStop calls an application makes itself at most.
MaxDirect == 1

NoListing == [tag |-> "none"]

NoSignal == [sig |-> "none", cb |-> "none"]

\* The signals Handler.PreRun subscribes to that the model tells apart:
\* SIGHUP and two of the termination signals.
TermSignals == {"INT", "TERM"}
Signals == {"HUP"} \cup TermSignals

\* cap(h.signal)
SignalCap == 2

\* fmt.Errorf("%s %w", sig, ErrSignal)
ErrSignal == Plain(SignalUnit, "signal")

\* fmt.Errorf("error on signal %s: %w", sig, err)
ErrRefresh == Plain(SignalUnit, "refresh")

\* run.ErrRequestedShutdown as IRQService.Close sends it
ErrRequestedShutdown == Plain(IrqUnit, "shutdown")

\* Handler.PreRun: the two channels, and the subscription.
SignalPreRun == sigCancel' = "open" /\ sigq' = << >> /\ UNCHANGED sigLast

\* Mutant: any SIGHUP ends Serve, callback or not.
SignalServeResultsHupFatal ==
    (IF sigCancel # "nil" /\ sigq # << >> /\ Head(sigq) \in TermSignals
     THEN {ErrSignal} ELSE {})
    \cup (IF sigCancel # "nil" /\ sigq # << >> /\ Head(sigq) = "HUP"
          THEN {ErrRefresh} ELSE {})
    \cup (IF sigCancel = "closed" THEN {NilErr} ELSE {})

\* What Handler.Serve can return in this state: the select takes the
\* signal at the head of h.signal or the closed h.cancel, either one when
\* both are ready; nil channels (no PreRun) are never ready.
SignalServeResults ==
    (IF sigCancel # "nil" /\ sigq # << >> /\ Head(sigq) \in TermSignals
     THEN {ErrSignal} ELSE {})
    \cup (IF sigCancel # "nil" /\ sigq # << >> /\ Head(sigq) = "HUP"
              /\ app.refresh = "some"
          THEN {ErrRefresh} ELSE {})
    \cup (IF sigCancel = "closed" THEN {NilErr} ELSE {})

\* Handler.Serve returns r.
SignalReturn(r) ==
    /\ sigq' = IF r = NilErr THEN << >> ELSE Tail(sigq)
    /\ sigLast' = [sig |-> IF r = NilErr THEN "cancel" ELSE Head(sigq),
                   cb  |-> IF r = ErrRefresh THEN "err" ELSE "none"]
    /\ UNCHANGED sigCancel

\* Handler.GracefulStop: close(h.cancel) panics on a channel that is nil
\* (no PreRun yet) or closed already.
SignalStopPanics == sigCancel # "open"

SignalStop == sigCancel' = "closed" /\ UNCHANGED << sigq, sigLast >>

\* Mutant: the lifecycle tracker's GracefulStop leaves the context alone.
LifecycleStopForgets == UNCHANGED lcCtx

\* lifecycle.GracefulStop: l.cancel()
LifecycleStop == lcCtx' = "cancelled"

\* lifecycle.Serve: <-l.ctx.Done(); return nil
LifecycleServeResults == IF lcCtx = "cancelled" THEN {NilErr} ELSE {}

\* irqSvc.Serve up to the receive.  i.irq is read without the mutex that
\* GracefulStop writes it under: once GracefulStop ran, the read sees nil
\* (the receive blocks for good) or the channel, closed by now.
IrqServe ==
    /\ \E o \in (IF irqCh = "open" THEN {"recv"} ELSE {"stuck", "eof"}) :
          irqServe' = o
    /\ UNCHANGED << irqCh, irqMu, closers, nCfn >>

\* Mutant: Serve swallows what it received.
IrqServeResultsNil ==
    IF irqServe \in {"shut", "eof"} THEN {NilErr} ELSE {}

\* irqSvc.Serve: return <-i.irq
IrqServeResults ==
    CASE irqServe = "shut" -> {ErrRequestedShutdown}
      [] irqServe = "eof"  -> {NilErr}
      [] OTHER             -> {}

IrqReturn(r) ==
    /\ irqServe' = IF r = NilErr THEN "retNil" ELSE "retShut"
    /\ UNCHANGED << irqCh, irqMu, closers, nCfn >>

\* irqSvc.GracefulStop: the cleanup function, then under the mutex the
\* channel is closed and the field set to nil; a Serve that is receiving
\* gets the zero value.  The step waits for the mutex.
IrqStop ==
    /\ irqMu = 0
    /\ nCfn' = nCfn + 1
    /\ irqCh' = "nil"
    /\ irqServe' = IF irqServe = "recv" THEN "eof" ELSE irqServe
    /\ UNCHANGED << irqMu, closers >>

\* PreRun, Serve (its beginning), the return of Serve and GracefulStop of
\* a unit, as far as the library's services are concerned.
LibPreRun(u) ==
    IF u = SignalUnit
    THEN SignalPreRun /\ UNCHANGED << hserver, lcCtx, irqv >>
    ELSE UNCHANGED svcv

LibServe(u) ==
    CASE u = HealthUnit ->
           hserver' = "created" /\ UNCHANGED << lcCtx, sigv, irqv >>
      [] u = IrqUnit ->
           IrqServe /\ UNCHANGED << hserver, lcCtx, sigv >>
      [] OTHER -> UNCHANGED svcv

LibReturn(u, r) ==
    CASE u = SignalUnit ->
           SignalReturn(r) /\ UNCHANGED << hserver, lcCtx, irqv >>
      [] u = IrqUnit ->
           IrqReturn(r) /\ UNCHANGED << hserver, lcCtx, sigv >>
      [] OTHER -> UNCHANGED svcv

LibStop(u) ==
    CASE u = HealthUnit ->
           HealthShutdown /\ UNCHANGED << lcCtx, sigv, irqv >>
      [] u = LifecycleUnit ->
           LifecycleStop /\ UNCHANGED << hserver, sigv, irqv >>
      [] u = SignalUnit ->
           SignalStop /\ UNCHANGED << hserver, lcCtx, irqv >>
      [] u = IrqUnit ->
           IrqStop /\ UNCHANGED << hserver, lcCtx, sigv >>
      [] OTHER -> UNCHANGED svcv

\* Applications built on the library's services: an IRQService on its own
\* or next to an ordinary Service or the lifecycle tracker, closed by up to
\* MaxClose threads; the signal handler, with or without a refresh
\* callback, next to the lifecycle tracker.  directs is the number of
\* GracefulStop calls the application makes itself on each of them.
LibUnitSets ==
    { {IrqUnit}, {IrqUnit, 3}, {IrqUnit, LifecycleUnit},
      {SignalUnit, LifecycleUnit} }

LibAppsOf(us) ==
    { [units |-> us,
       opts  |-> [u \in us |-> << >>],
       args  |-> { << >> },
       late  |-> {}, live |-> FALSE, maxDereg |-> 0, maxCfg |-> 0,
       checkers |-> {}, listens |-> TRUE,
       refresh |-> rf, closes |-> cl, directs |-> dr] :
         rf \in (IF SignalUnit \in us THEN {"none", "some"} ELSE {"none"}),
         cl \in (IF IrqUnit \in us THEN 0 .. MaxClose ELSE {0}),
         dr \in 0 .. MaxDirect }

LibApps == UNION {LibAppsOf(us) : us \in LibUnitSets}

\* One phase of the inventory: the header and the names of the non-nil
\* entries, written only when the list has a slot at all.
Section(h, list) ==
    IF Len(list) > 0 THEN << [h |-> h, names |-> NonNil(list)] >> ELSE << >>

\* Mutant: the group is tagged by the length of the serve list.
ListUnitsTagsByLength(name, li, lc, lp, ls) ==
    [name |-> name,
     tag  |-> IF Len(ls) > 0 THEN "svc" ELSE "cli",
     body |-> Section("initialize", li) \o Section("config", lc)
              \o Section("pre-run", lp) \o Section("serve", ls)]

\* Group.ListUnits on a group with these lists: "Group: name [tag]" and
\* the phases (a header stands for its text, which for the pre-run phase is
\* "pre-run" in one variant and "prerun" in the other).
ListUnits(name, li, lc, lp, ls) ==
    [name |-> name,
     tag  |-> IF NonNil(ls) # << >> THEN "svc" ELSE "cli",
     body |-> Section("initialize", li) \o Section("config", lc)
              \o Section("pre-run", lp) \o Section("serve", ls)]

\* An application that registers and deregisters a unit of every phase and
\* a plain PreRunner and asks for the inventory in between.
ListApps ==
    { [units |-> {1, 5},
       opts  |-> [u \in {1, 5} |-> << >>],
       args  |-> { << >> },
       late  |-> {}, live |-> FALSE, maxDereg |-> MaxDereg + 1,
       maxCfg |-> MaxCfg, checkers |-> {}, listens |-> TRUE] }

-----------------------------------------------------------------------------
(* The initial state: a Group value as the caller creates it *)

\* No Register or Deregister result is at hand.
NoCall == [op |-> "none", u |-> 0, v |-> FALSE]

InitGroup ==
    /\ variant \in {"oss", "hs"}
    /\ disableHS \in BOOLEAN
    /\ (variant = "oss" => disableHS = FALSE)
    /\ gi = << >> /\ gn = << >> /\ gc = << >> /\ gp = << >> /\ gs = << >>
    /\ configured = FALSE
    /\ hsRegistered = FALSE
    /\ pc = "idle"
    /\ api = "none"
    /\ argv = << >>
    /\ gf = << >>
    /\ dest = {}
    /\ idx = 0 /\ lim = 0
    /\ err = NilErr
    /\ hasServices = FALSE
    /\ actors = << >> /\ sv = << >> /\ chan = << >> /\ first = NilErr
    /\ rcResult = NilErr /\ runResult = NilErr
    /\ nInit = Zero /\ nName = Zero /\ nFlagSet = Zero /\ nValidate = Zero
    /\ nPreRun = Zero /\ nServe = Zero /\ nServeRet = Zero /\ nStop = Zero
    /\ nDereg = 0 /\ nCfg = 0
    /\ vlog = << >>
    /\ preFail = [u |-> 0, r |-> NilErr]
    /\ firstRet = NoneYet /\ lastRet = NoneYet
    /\ handed = << >>
    /\ ret = NoCall
    /\ gone = {}
    /\ gname = ""
    /\ nlog = << >>
    /\ checkers = {}
    /\ hstatus = "unset"
    /\ listening = FALSE
    /\ report = NoReport
    /\ hserver = "nil"
    /\ listing = NoListing
    /\ lcCtx = "live"
    /\ sigCancel = "nil" /\ sigq = << >> /\ sigLast = NoSignal
    /\ irqCh = "open" /\ irqMu = 0 /\ irqServe = "no"
    /\ closers = [c \in 1 .. MaxClose |-> "idle"]
    /\ nCfn = 0
    /\ nDirect = Zero

Init == app = MainApp /\ InitGroup

-----------------------------------------------------------------------------
(* Register and Deregister, called by the application between the group's  *)
(* exported calls                                                          *)

\* Group.Register(u): u is appended to every phase list whose interface it
\* satisfies; the Namer and Config lists are closed once configured.
RegisterUnit(u) ==
    /\ gi' = AppendIf(gi, u, "I" \in Caps(u))
    /\ gn' = AppendIf(gn, u, ~configured /\ "N" \in Caps(u))
    /\ gc' = AppendIf(gc, u, ~configured /\ "C" \in Caps(u))
    /\ gp' = AppendIf(gp, u, "P" \in Caps(u))
    /\ gs' = AppendIf(gs, u, "S" \in Caps(u))

\* Mutant: the result tells whether the unit has any capability, also when
\* the group is configured.
HasRegisteredAnyCapability(u) == Caps(u) # {}

\* hasRegistered[idx]: set in every branch of Register that appends.
HasRegistered(u) ==
    \/ "I" \in Caps(u)
    \/ (~configured /\ "N" \in Caps(u))
    \/ (~configured /\ "C" \in Caps(u))
    \/ "P" \in Caps(u)
    \/ "S" \in Caps(u)

Fits(list, c) == c => Len(list) < MaxLen

FitsAll(u) ==
    /\ Fits(gi, "I" \in Caps(u)) /\ Fits(gn, "N" \in Caps(u))
    /\ Fits(gc, "C" \in Caps(u)) /\ Fits(gp, "P" \in Caps(u))
    /\ Fits(gs, "S" \in Caps(u))

Register(u) ==
    /\ pc = "idle"
    /\ FitsAll(u)
    /\ RegisterUnit(u)
    /\ ret' = [op |-> "Register", u |-> u, v |-> HasRegistered(u)]
    /\ gone' = gone \ {u}
    /\ UNCHANGED << app, libv, healthv, gname, nlog, variant, disableHS, gf, dest, configured, hsRegistered, pc, api, argv,
                    idx, lim, err, hasServices, superv, rcResult, runResult,
                    counters, nDereg, nCfg, hist >>

\* Mutant: Deregister forgets the service list.
DeregisterUnitKeepsServices(u) ==
    /\ gi' = Nulled(gi, u)
    /\ gn' = Nulled(gn, u)
    /\ gc' = Nulled(gc, u)
    /\ gp' = Nulled(gp, u)
    /\ gs' = gs

\* Group.Deregister(u): every slot holding u becomes nil, no list is resized.
DeregisterUnit(u) ==
    /\ gi' = Nulled(gi, u)
    /\ gn' = Nulled(gn, u)
    /\ gc' = Nulled(gc, u)
    /\ gp' = Nulled(gp, u)
    /\ gs' = Nulled(gs, u)

\* hasDeregistered[idx]: set whenever a slot is set to nil.
HasDeregistered(u) ==
    Holds(gi, u) \/ Holds(gn, u) \/ Holds(gc, u) \/ Holds(gp, u) \/ Holds(gs, u)

\* Mutant: a Deregister made while the services run takes the unit's
\* actors out of the supervisor's hands.
DeregisterDropsActor(u) ==
    /\ \/ pc = "idle"
       \/ app.live /\ pc \in {"wait", "interrupt", "drain"}
    /\ nDereg < app.maxDereg
    /\ DeregisterUnit(u)
    /\ ret' = [op |-> "Deregister", u |-> u, v |-> HasDeregistered(u)]
    /\ gone' = IF pc = "idle" THEN gone \cup {u} ELSE gone
    /\ nDereg' = nDereg + 1
    /\ sv' = [k \in DOMAIN sv |-> IF actors[k] = u THEN "returned" ELSE sv[k]]
    /\ UNCHANGED << app, libv, healthv, gname, nlog, variant, disableHS, gf, dest, configured, hsRegistered,
                    pc, api, argv, idx, lim, err, hasServices, actors, chan, first,
                    rcResult, runResult, counters, nCfg, hist >>

\* The application calls Deregister between the group's calls and, when it
\* is one that does so (app.live), while the services run.
Deregister(u) ==
    /\ \/ pc = "idle"
       \/ app.live /\ pc \in {"wait", "interrupt", "drain"}
    /\ nDereg < app.maxDereg
    /\ DeregisterUnit(u)
    /\ ret' = [op |-> "Deregister", u |-> u, v |-> HasDeregistered(u)]
    /\ gone' = IF pc = "idle" THEN gone \cup {u} ELSE gone
    /\ nDereg' = nDereg + 1
    /\ UNCHANGED << app, libv, healthv, gname, nlog, variant, disableHS, gf, dest, configured, hsRegistered, pc, api, argv,
                    idx, lim, err, hasServices, superv, rcResult, runResult,
                    counters, nCfg, hist >>


-----------------------------------------------------------------------------
(* What user callbacks may do and return *)

\* A Validate or PreRun callback may call Group.Deregister on one unit
\* (0: it deregisters nothing), as the callbacks of TestRuntimeDeregister do.
DeregChoices == IF nDereg < app.maxDereg THEN {0} \cup app.units ELSE {0}

\* A callback that deregisters nothing may call Group.Register on one of
\* the units the application registers late (0: it registers nothing).
RegChoices(d) ==
    IF d # 0 THEN {0} ELSE {0} \cup {u \in app.late : FitsAll(u)}

\* The values a callback of unit u may return.  The logOptions unit always
\* validates; the health service fails with an ordinary error only.
Results(u) ==
    IF u = LogUnit THEN {NilErr}
    ELSE IF u = HealthUnit THEN {NilErr, Plain(u, "e")}
    ELSE {NilErr} \cup {Plain(u, b) : b \in ErrKinds(variant)}

\* Serve of the health service ends with the listener's or the HTTP
\* server's error, never with nil, and not before it tried to listen; the
\* library's services return what their state makes them return.
ServeResults(u) ==
    CASE u = HealthUnit ->
           IF hserver \in {"serving", "failed", "closed"}
           THEN {Plain(u, "e")} ELSE {}
      [] u = LifecycleUnit -> LifecycleServeResults
      [] u = SignalUnit    -> SignalServeResults
      [] u = IrqUnit       -> IrqServeResults
      [] OTHER -> {NilErr} \cup {Plain(u, b) : b \in ServeKinds(variant)}

\* PreRun of the health service only prepares its state and returns nil.
PreRunResults(u) == IF u = HealthUnit THEN {NilErr} ELSE Results(u)

CallbackDeregisters(d) ==
    /\ DeregisterUnit(d)
    /\ nDereg' = IF d = 0 THEN nDereg ELSE nDereg + 1
    /\ gone' = IF d = 0 THEN gone ELSE gone \cup {d}

\* The Group calls of one callback: Deregister(d), Register(g) or none; the
\* callback drops the returned booleans.
CallbackCalls(d, g) ==
    IF g = 0
    THEN CallbackDeregisters(d)
    ELSE RegisterUnit(g) /\ gone' = gone \ {g} /\ UNCHANGED nDereg

-----------------------------------------------------------------------------
(* RunConfig: the Config phase *)

Enter(p, n) == pc' = p /\ idx' = 1 /\ lim' = n

\* Mutant: the Validate loop placed after the pre-run loop.
AfterPreRunValidates == "cfgValidate"

\* The phase that follows the pre-run loop of Run.
AfterPreRun == "runAdd"

\* RunConfig returns e0 (through its deferred function).  Called directly,
\* the caller gets the value; called from Run, a non-nil value ends Run
\* (ErrBailEarlyRequest as nil) and nil lets Run go on.
ConfigReturn(e0) ==
    LET e == RunConfigDeferred(e0) IN
    /\ rcResult' = e
    /\ argv' = << >>
    /\ err' = NilErr
    /\ IF api = "RunConfig"
       THEN /\ pc' = "idle" /\ idx' = 0 /\ lim' = 0
            /\ api' = "none"
            /\ UNCHANGED runResult
       ELSE /\ api' = api
            /\ IF e # NilErr
               THEN /\ pc' = "done" /\ idx' = 0 /\ lim' = 0
                    /\ runResult' = IF e = ErrBailEarlyRequest THEN NilErr ELSE e
               ELSE /\ Enter("runInit", Len(gi))
                    /\ UNCHANGED runResult

\* Mutant: every RunConfig registers a health service, whether or not
\* one is registered already.
CfgStartRegistersAgain(a, who) ==
    /\ pc = "idle"
    /\ IF variant = "hs" /\ ~disableHS
       THEN RegisterUnit(HealthUnit) /\ hsRegistered' = TRUE
       ELSE UNCHANGED << lists, hsRegistered >>
    /\ configured' = TRUE
    /\ api' = who
    /\ argv' = a
    /\ gf' = ReservedFlags
    /\ err' = NilErr
    /\ vlog' = << >>
    /\ nlog' = << >>
    /\ gname' = IF << 0, "name" >> \in Parse(ReservedFlags, a, {}).w THEN NameArg
                ELSE IF gname = "" THEN BinaryName ELSE gname
    /\ Enter("cfgInit", Len(gi))
    /\ ret' = NoCall
    /\ UNCHANGED << app, libv, healthv, gone, variant, disableHS, dest, hasServices, superv, rcResult, runResult,
                    counters, nDereg, preFail, firstRet, lastRet, handed >>

\* if g.Name == "" { g.Name = path.Base(os.Args[0]) } ... _ = gFS.Parse(args);
\* if name != "" { g.Name = name }: the reserved flags alone are parsed, the
\* error is dropped, and what the parse wrote before it stopped counts.
ResolveName(n, a) ==
    IF << 0, "name" >> \in Parse(ReservedFlags, a, {}).w THEN NameArg
    ELSE IF n = "" THEN BinaryName ELSE n

\* The head of RunConfig: the implicit health service (hs variant),
\* configured := true, the reserved flag set and its partial parse.
CfgStart(a, who) ==
    /\ pc = "idle"
    /\ IF variant = "hs" /\ ~hsRegistered /\ ~disableHS
       THEN RegisterUnit(HealthUnit) /\ hsRegistered' = TRUE
       ELSE UNCHANGED << lists, hsRegistered >>
    /\ configured' = TRUE
    /\ api' = who
    /\ argv' = a
    /\ gf' = ReservedFlags
    /\ err' = NilErr
    /\ vlog' = << >>
    /\ nlog' = << >>
    /\ gname' = ResolveName(gname, a)
    /\ Enter("cfgInit", Len(gi))
    /\ ret' = NoCall
    /\ UNCHANGED << app, libv, healthv, gone, variant, disableHS, dest, hasServices, superv, rcResult, runResult,
                    counters, nDereg, preFail, firstRet, lastRet, handed >>

CallRunConfig(a) ==
    /\ nCfg < app.maxCfg
    /\ CfgStart(a, "RunConfig")
    /\ nCfg' = nCfg + 1

\* for idx, i := range g.i { if i != nil { i.Initialize(); g.i[idx] = nil } }
CfgInitialize ==
    /\ pc = "cfgInit"
    /\ LET j == NextIdx(gi, idx, lim) IN
       IF j = 0
       THEN /\ Enter("cfgNamer", Len(gn))
            /\ UNCHANGED << gi, nInit >>
       ELSE /\ nInit' = Inc(nInit, gi[j])
            /\ gi' = SetNil(gi, j)
            /\ idx' = j + 1
            /\ UNCHANGED << pc, lim >>
    /\ UNCHANGED << app, libv, healthv, gname, nlog, ret, gone, variant, disableHS, gf, dest, gn, gc, gp, gs, configured, hsRegistered,
                    api, argv, err, hasServices, superv, rcResult, runResult,
                    nName, nFlagSet, nValidate, nPreRun, nServe, nServeRet, nStop,
                    nDereg, nCfg, hist >>

\* for _, n := range g.n { if n != nil { n.GroupName(g.Name) } }
\* and then, in the hs variant, the logOptions unit is put in front of g.c.
CfgNamer ==
    /\ pc = "cfgNamer"
    /\ LET j == NextIdx(gn, idx, lim) IN
       IF j = 0
       THEN /\ gc' = IF variant = "hs" THEN << LogUnit >> \o gc ELSE gc
            /\ Enter("cfgFlags", Len(gc'))
            /\ UNCHANGED << nName, nlog >>
       ELSE /\ nName' = Inc(nName, gn[j])
            /\ nlog' = Append(nlog, [j |-> j, u |-> gn[j], name |-> gname])
            /\ idx' = j + 1
            /\ UNCHANGED << pc, lim, gc >>
    /\ UNCHANGED << app, libv, healthv, gname, ret, gone, variant, disableHS, gf, dest, gi, gn, gp, gs, configured, hsRegistered,
                    api, argv, err, hasServices, superv, rcResult, runResult,
                    nInit, nFlagSet, nValidate, nPreRun, nServe, nServeRet, nStop,
                    nDereg, nCfg, hist >>

\* for idx := range g.c { ... fs[idx] = g.c[idx].FlagSet() ;
\*     fs[idx].VisitAll(...) } : the unit's options are merged into g.f.
CfgFlagSet ==
    /\ pc = "cfgFlags"
    /\ LET j == NextIdx(gc, idx, lim) IN
       IF j = 0
       THEN /\ pc' = "cfgParse"
            /\ UNCHANGED << idx, lim, nFlagSet, gf >>
       ELSE LET m == Merge(gf, OptionsOf(gc[j]), gc[j]) IN
            /\ nFlagSet' = Inc(nFlagSet, gc[j])
            /\ gf' = m.f
            /\ IF m.panic
               THEN pc' = "panic" /\ idx' = 0 /\ lim' = 0
               ELSE idx' = j + 1 /\ UNCHANGED << pc, lim >>
    /\ UNCHANGED << app, libv, healthv, gname, nlog, ret, gone, variant, disableHS, dest, lists, configured, hsRegistered,
                    api, argv, err, hasServices, superv, rcResult, runResult,
                    nInit, nName, nValidate, nPreRun, nServe, nServeRet, nStop,
                    nDereg, nCfg, hist >>

\* Mutant: the group takes the name again after the full parse
\* (if name != "" { g.Name = name } repeated after g.f.Parse).
CfgParseRenames ==
    /\ pc = "cfgParse"
    /\ gname' = IF << 0, "name" >> \in Parse(gf, argv, {}).w THEN NameArg ELSE gname
    /\ LET r == Parse(gf, argv, {})
           bail == \E x \in r.w : x[1] = 0 /\ x[2] \in BailFlags
       IN  /\ dest' = dest \cup {x \in r.w : x[1] # 0}
           /\ \/ /\ ~r.ok
                 /\ ConfigReturn(ErrParse)
              \/ /\ r.ok /\ bail
                 /\ ConfigReturn(ErrBailEarlyRequest)
              \/ /\ r.ok /\ ~bail
                 /\ variant = "hs"
                 /\ ConfigReturn(ErrLogConfigure)
              \/ /\ r.ok /\ ~bail
                 /\ Enter("cfgValidate", Len(gc))
                 /\ UNCHANGED << api, argv, err, rcResult, runResult >>
    /\ UNCHANGED << app, libv, healthv, nlog, ret, gone, variant, disableHS, gf, lists, configured, hsRegistered,
                    hasServices, superv, counters, nDereg, nCfg, hist >>

\* Mutant: the bail-early switch is missing, a help or version request
\* goes on to the Validate loop.
CfgParseNoBail ==
    /\ pc = "cfgParse"
    /\ LET r == Parse(gf, argv, {})
       IN  /\ dest' = dest \cup {x \in r.w : x[1] # 0}
           /\ \/ /\ ~r.ok
                 /\ ConfigReturn(ErrParse)
              \/ /\ r.ok
                 /\ variant = "hs"
                 /\ ConfigReturn(ErrLogConfigure)
              \/ /\ r.ok
                 /\ Enter("cfgValidate", Len(gc))
                 /\ UNCHANGED << api, argv, err, rcResult, runResult >>
    /\ UNCHANGED << app, libv, healthv, gname, nlog, ret, gone, variant, disableHS, gf, lists, configured, hsRegistered,
                    hasServices, superv, counters, nDereg, nCfg, hist >>

\* Mutant: the error of the full parse is dropped (_ = g.f.Parse(args)).
CfgParseIgnoresError ==
    /\ pc = "cfgParse"
    /\ LET r == Parse(gf, argv, {})
           bail == \E x \in r.w : x[1] = 0 /\ x[2] \in BailFlags
       IN  /\ dest' = dest \cup {x \in r.w : x[1] # 0}
           /\ \/ /\ bail
                 /\ ConfigReturn(ErrBailEarlyRequest)
              \/ /\ ~bail
                 /\ variant = "hs"
                 /\ ConfigReturn(ErrLogConfigure)
              \/ /\ ~bail
                 /\ Enter("cfgValidate", Len(gc))
                 /\ UNCHANGED << api, argv, err, rcResult, runResult >>
    /\ UNCHANGED << app, libv, healthv, gname, nlog, ret, gone, variant, disableHS, gf, lists, configured, hsRegistered,
                    hasServices, superv, counters, nDereg, nCfg, hist >>

\* g.f.Parse(args), the bail-early switch and, in the hs variant,
\* l.Configure(logOpts), which may fail.
CfgParse ==
    /\ pc = "cfgParse"
    /\ LET r == Parse(gf, argv, {})
           bail == \E x \in r.w : x[1] = 0 /\ x[2] \in BailFlags
       IN  /\ dest' = dest \cup {x \in r.w : x[1] # 0}
           /\ \/ /\ ~r.ok
                 /\ ConfigReturn(ErrParse)
              \/ /\ r.ok /\ bail
                 /\ ConfigReturn(ErrBailEarlyRequest)
              \/ /\ r.ok /\ ~bail
                 /\ variant = "hs"
                 /\ ConfigReturn(ErrLogConfigure)
              \/ /\ r.ok /\ ~bail
                 /\ Enter("cfgValidate", Len(gc))
                 /\ UNCHANGED << api, argv, err, rcResult, runResult >>
    /\ UNCHANGED << app, libv, healthv, gname, nlog, ret, gone, variant, disableHS, gf, lists, configured, hsRegistered,
                    hasServices, superv, counters, nDereg, nCfg, hist >>

\* Mutant: the Validate loop returns at the first error.
CfgValidateShortCircuits ==
    /\ pc = "cfgValidate"
    /\ LET j == NextIdx(gc, idx, lim) IN
       IF j = 0
       THEN /\ ConfigReturn(err)
            /\ UNCHANGED << lists, nValidate, nDereg, vlog, gone >>
       ELSE \E d \in DeregChoices, r \in Results(gc[j]) :
            \E g \in RegChoices(d) :
            /\ nValidate' = Inc(nValidate, gc[j])
            /\ vlog' = Append(vlog, [j |-> j, u |-> gc[j], r |-> r])
            /\ CallbackCalls(d, g)
            /\ IF r = NilErr
               THEN /\ err' = err
                    /\ idx' = j + 1
                    /\ UNCHANGED << pc, lim, api, argv, rcResult, runResult >>
               ELSE ConfigReturn(MultiAppend(err, r))
    /\ UNCHANGED << app, libv, healthv, gname, nlog, ret, variant, disableHS, gf, dest, configured, hsRegistered,
                    hasServices, superv,
                    nInit, nName, nFlagSet, nPreRun, nServe, nServeRet, nStop,
                    nCfg, preFail, firstRet, lastRet, handed >>

\* for idx := range g.c { ... g.c[idx].Validate() ... multierror.Append }
\* and the return that follows the loop.
CfgValidate ==
    /\ pc = "cfgValidate"
    /\ LET j == NextIdx(gc, idx, lim) IN
       IF j = 0
       THEN /\ ConfigReturn(err)
            /\ UNCHANGED << lists, nValidate, nDereg, vlog, gone >>
       ELSE \E d \in DeregChoices, r \in Results(gc[j]) :
            \E g \in RegChoices(d) :
            /\ nValidate' = Inc(nValidate, gc[j])
            /\ vlog' = Append(vlog, [j |-> j, u |-> gc[j], r |-> r])
            /\ CallbackCalls(d, g)
            /\ err' = IF r = NilErr THEN err ELSE MultiAppend(err, r)
            /\ idx' = j + 1
            /\ UNCHANGED << pc, lim, api, argv, rcResult, runResult >>
    /\ UNCHANGED << app, libv, healthv, gname, nlog, ret, variant, disableHS, gf, dest, configured, hsRegistered,
                    hasServices, superv,
                    nInit, nName, nFlagSet, nPreRun, nServe, nServeRet, nStop,
                    nCfg, preFail, firstRet, lastRet, handed >>


-----------------------------------------------------------------------------
(* Run: the Run phase *)

\* Run returns e through its deferred function.
RunReturn(e) ==
    /\ runResult' = RunDeferred(e)
    /\ pc' = "done" /\ idx' = 0 /\ lim' = 0

\* Mutant: Run enters the Config phase whether or not the group is
\* configured already.
CallRunConfiguresAgain(a) ==
    /\ pc = "idle"
    /\ CfgStart(a, "Run")
    /\ UNCHANGED nCfg

\* Run(args...): the Config phase first when the group is not configured.
CallRun(a) ==
    /\ pc = "idle"
    /\ IF ~configured
       THEN CfgStart(a, "Run") /\ UNCHANGED nCfg
       ELSE /\ api' = "Run"
            /\ ret' = NoCall
            /\ Enter("runInit", Len(gi))
            /\ UNCHANGED << app, libv, healthv, gname, nlog, gone, variant, disableHS, gf, dest, lists, configured, hsRegistered,
                            argv, err, hasServices, superv, rcResult, runResult,
                            counters, nDereg, nCfg, hist >>

\* for _, i := range g.i { if i != nil { i.Initialize() } }
RunInitialize ==
    /\ pc = "runInit"
    /\ LET j == NextIdx(gi, idx, lim) IN
       IF j = 0
       THEN /\ Enter("runPre", Len(gp))
            /\ UNCHANGED nInit
       ELSE /\ nInit' = Inc(nInit, gi[j])
            /\ idx' = j + 1
            /\ UNCHANGED << pc, lim >>
    /\ UNCHANGED << app, libv, healthv, gname, nlog, ret, gone, variant, disableHS, gf, dest, lists, configured, hsRegistered,
                    api, argv, err, hasServices, superv, rcResult, runResult,
                    nName, nFlagSet, nValidate, nPreRun, nServe, nServeRet, nStop,
                    nDereg, nCfg, hist >>

\* for idx := range g.p { ... if err := g.p[idx].PreRun(); err != nil {
\*     return fmt.Errorf("pre-run %s: %w", g.p[idx].Name(), err) } }
\* g.p[idx] is read again after PreRun returned: a PreRunner that took
\* itself out of the group leaves nil there and Name() panics.
RunPreRun ==
    /\ pc = "runPre"
    /\ LET j == NextIdx(gp, idx, lim) IN
       IF j = 0
       THEN /\ Enter(AfterPreRun, Len(gs))
            /\ UNCHANGED << lists, nPreRun, nDereg, runResult, preFail, gone,
                            checkers, hstatus, svcv >>
       ELSE \E d \in DeregChoices, r \in PreRunResults(gp[j]) :
            \E g \in RegChoices(d) :
            /\ nPreRun' = Inc(nPreRun, gp[j])
            /\ IF gp[j] = HealthUnit THEN HealthPreRun
               ELSE UNCHANGED << checkers, hstatus >>
            /\ LibPreRun(gp[j])
            /\ preFail' = IF r # NilErr THEN [u |-> gp[j], r |-> r] ELSE preFail
            /\ CallbackCalls(d, g)
            /\ IF r = NilErr
               THEN /\ idx' = j + 1
                    /\ UNCHANGED << pc, lim, runResult >>
               ELSE IF d = gp[j]
               THEN /\ pc' = "panic" /\ idx' = 0 /\ lim' = 0
                    /\ UNCHANGED runResult
               ELSE RunReturn(PreRunError(gp[j], r))
    /\ UNCHANGED << app, listing, nDirect, listening, report, gname, nlog, ret, variant, disableHS, gf, dest, configured, hsRegistered,
                    api, argv, err, hasServices, superv, rcResult,
                    nInit, nName, nFlagSet, nValidate, nServe, nServeRet, nStop,
                    nCfg, vlog, firstRet, lastRet, handed >>

\* The services Run adds to the supervisor and the head of run.Group.Run:
\* no actor, return nil; otherwise one goroutine per actor.
Supervise(as) ==
    /\ actors' = as
    /\ first' = NilErr
    /\ chan' = << >>
    /\ IF as = << >>
       THEN /\ sv' = << >>
            /\ runResult' = NilErr
            /\ pc' = "done" /\ idx' = 0 /\ lim' = 0
       ELSE /\ sv' = [k \in 1 .. Len(as) |-> "spawned"]
            /\ pc' = "wait" /\ idx' = 0 /\ lim' = 0
            /\ UNCHANGED runResult

\* Mutant: the service loop stops at the first nil slot (break for continue).
RunAddServicesBreaks ==
    /\ pc = "runAdd"
    /\ HealthRegister(Range(NonNil(gs)))
    /\ handed' = gs
    /\ LET n == NextIdx([k \in 1 .. Len(gs) |-> IF gs[k] = 0 THEN 1 ELSE 0],
                        1, Len(gs))
       IN  Supervise(IF n = 0 THEN gs ELSE SubSeq(gs, 1, n - 1))
    /\ hasServices' = (variant = "oss" /\ actors' # << >>)
    /\ UNCHANGED << app, libv, hstatus, listening, report, gname, nlog, ret, gone, variant, disableHS, gf, dest, lists, configured, hsRegistered,
                    api, argv, err, rcResult, counters, nDereg, nCfg,
                    vlog, preFail, firstRet, lastRet >>

\* Mutant: the supervisor is started in the background (go g.r.Run()) and
\* Run returns nil at once.
RunAddServicesDetached ==
    /\ pc = "runAdd"
    /\ HealthRegister(Range(NonNil(gs)))
    /\ handed' = gs
    /\ actors' = NonNil(gs)
    /\ first' = NilErr
    /\ chan' = << >>
    /\ sv' = [k \in 1 .. Len(actors') |-> "spawned"]
    /\ hasServices' = (variant = "oss" /\ actors' # << >>)
    /\ RunReturn(NilErr)
    /\ UNCHANGED << app, libv, hstatus, listening, report, gname, nlog, ret, gone, variant, disableHS, gf, dest, lists, configured, hsRegistered,
                    api, argv, err, rcResult, counters, nDereg, nCfg,
                    vlog, preFail, firstRet, lastRet >>

\* for idx := range g.s { if g.s[idx] == nil { continue } ...
\*     g.r.Add(serve, stop) } ; return g.r.Run()
\* Mutant: the first service is stopped while the services are handed over.
RunAddServicesStopsFirst ==
    /\ pc = "runAdd"
    /\ HealthRegister(Range(NonNil(gs)))
    /\ handed' = gs
    /\ Supervise(NonNil(gs))
    /\ hasServices' = (variant = "oss" /\ actors' # << >>)
    /\ nStop' = IF NonNil(gs) = << >> THEN nStop ELSE Inc(nStop, Head(NonNil(gs)))
    /\ UNCHANGED << app, libv, hstatus, listening, report, gname, nlog, ret, gone, variant, disableHS, gf, dest, lists, configured, hsRegistered,
                    api, argv, err, rcResult,
                    nInit, nName, nFlagSet, nValidate, nPreRun, nServe, nServeRet,
                    nDereg, nCfg, vlog, preFail, firstRet, lastRet >>

\* In the hs variant the loop hands each service to g.h.register first; g.h
\* is nil when DisableHealthService is set, and register on a nil
\* healthService panics at the first service that is a Checker.
RunAddServices ==
    /\ pc = "runAdd"
    /\ IF variant = "hs" /\ disableHS /\ \E u \in Range(NonNil(gs)) : IsChecker(u)
       THEN /\ pc' = "panic" /\ idx' = 0 /\ lim' = 0
            /\ UNCHANGED << handed, superv, runResult, hasServices, checkers >>
       ELSE /\ handed' = gs
            /\ IF variant = "hs" THEN HealthRegister(Range(NonNil(gs)))
               ELSE UNCHANGED checkers
            /\ Supervise(NonNil(gs))
            /\ hasServices' = (variant = "oss" /\ actors' # << >>)
    /\ UNCHANGED << app, libv, hstatus, listening, report, gname, nlog, ret, gone, variant, disableHS, gf, dest, lists, configured, hsRegistered,
                    api, argv, err, rcResult, counters, nDereg, nCfg,
                    vlog, preFail, firstRet, lastRet >>

-----------------------------------------------------------------------------
(* The supervisor (oklog/run) and the service goroutines *)

\* The goroutine of actor k calls Serve (the health service: up to
\* s.server = &http.Server{...}).
SvcStart(k) ==
    /\ pc \in {"wait", "interrupt", "drain"}
    /\ k \in DOMAIN sv
    /\ sv[k] = "spawned"
    /\ sv' = [sv EXCEPT ![k] = "serving"]
    /\ nServe' = Inc(nServe, actors[k])
    /\ LibServe(actors[k])
    /\ UNCHANGED << app, listing, nDirect, hstatus, listening, checkers, report, gname, nlog, ret, gone, variant, disableHS, gf, dest, lists, configured, hsRegistered,
                    pc, api, argv, idx, lim, err, hasServices, actors, chan, first,
                    rcResult, runResult,
                    nInit, nName, nFlagSet, nValidate, nPreRun, nServeRet, nStop,
                    nDereg, nCfg, hist >>

\* Serve of actor k returns r and the goroutine sends it on the channel,
\* whose capacity is the number of actors: the send never blocks.
SvcReturn(k) ==
    /\ pc \in {"wait", "interrupt", "drain"}
    /\ k \in DOMAIN sv
    /\ sv[k] = "serving"
    /\ \E r \in ServeResults(actors[k]) :
          /\ chan' = Append(chan, r)
          /\ firstRet' = IF firstRet = NoneYet THEN r ELSE firstRet
          /\ lastRet' = r
          /\ LibReturn(actors[k], r)
    /\ sv' = [sv EXCEPT ![k] = "returned"]
    /\ nServeRet' = Inc(nServeRet, actors[k])
    /\ listening' = IF actors[k] = HealthUnit THEN FALSE ELSE listening
    /\ UNCHANGED << app, listing, nDirect, checkers, hstatus, report, gname, nlog, ret, gone, variant, disableHS, gf, dest, lists, configured, hsRegistered,
                    pc, api, argv, idx, lim, err, hasServices, actors, first,
                    rcResult, runResult,
                    nInit, nName, nFlagSet, nValidate, nPreRun, nServe, nStop,
                    nDereg, nCfg, vlog, preFail, handed >>

\* listener, err := s.listen() and what follows it in healthService.Serve,
\* up to the call of s.server.Serve(listener).
HealthListen ==
    /\ pc \in {"wait", "interrupt", "drain"}
    /\ hserver \in {"created", "createdShut"}
    /\ \E k \in DOMAIN sv : actors[k] = HealthUnit /\ sv[k] = "serving"
    /\ HealthServe
    /\ hserver' = IF ~app.listens THEN "failed"
                  ELSE IF hserver = "created" THEN "serving" ELSE "closed"
    /\ UNCHANGED << app, listing, lcCtx, sigv, irqv, nDirect, checkers, report,
                    gname, nlog, ret, gone, variant, disableHS, gf, dest, lists,
                    configured, hsRegistered, pc, api, argv, idx, lim, err,
                    hasServices, superv, rcResult, runResult, counters,
                    nDereg, nCfg, hist >>

\* err := <-errors : the first actor to return.
SupFirst ==
    /\ pc = "wait"
    /\ chan # << >>
    /\ first' = Head(chan)
    /\ chan' = Tail(chan)
    /\ pc' = "interrupt" /\ idx' = 1
    /\ UNCHANGED << app, libv, healthv, gname, nlog, ret, gone, variant, disableHS, gf, dest, lists, configured, hsRegistered,
                    api, argv, lim, err, hasServices, actors, sv,
                    rcResult, runResult, counters, nDereg, nCfg, hist >>

\* for _, a := range g.actors { a.interrupt(err) } : GracefulStop of each
\* actor, in the order the actors were added.
SupInterrupt ==
    /\ pc = "interrupt"
    /\ nStop' = Inc(nStop, actors[idx])
    /\ IF actors[idx] = HealthUnit THEN HealthGracefulStop
       ELSE UNCHANGED hstatus
    /\ IF actors[idx] = SignalUnit /\ SignalStopPanics
       THEN pc' = "panic" /\ idx' = 0 /\ UNCHANGED svcv
       ELSE /\ LibStop(actors[idx])
            /\ IF idx = Len(actors)
               THEN pc' = "drain" /\ idx' = 1
               ELSE pc' = pc /\ idx' = idx + 1
    /\ UNCHANGED << app, listing, nDirect, checkers, listening, report, gname, nlog, ret, gone, variant, disableHS, gf, dest, lists, configured, hsRegistered,
                    api, argv, lim, err, hasServices, superv,
                    rcResult, runResult,
                    nInit, nName, nFlagSet, nValidate, nPreRun, nServe, nServeRet,
                    nDereg, nCfg, hist >>

\* for i := 1; i < cap(errors); i++ { <-errors } ; return err
SupDrain ==
    /\ pc = "drain"
    /\ IF idx < Len(actors)
       THEN /\ chan # << >>
            /\ chan' = Tail(chan)
            /\ idx' = idx + 1
            /\ UNCHANGED << pc, lim, runResult >>
       ELSE /\ RunReturn(first)
            /\ UNCHANGED chan
    /\ UNCHANGED << app, libv, healthv, gname, nlog, ret, gone, variant, disableHS, gf, dest, lists, configured, hsRegistered,
                    api, argv, err, hasServices, actors, sv, first,
                    rcResult, counters, nDereg, nCfg, hist >>

-----------------------------------------------------------------------------
(* The specification *)

Next ==
    \/ \E u \in app.units : Register(u)
    \/ \E u \in app.units : Deregister(u)
    \/ \E a \in app.args : CallRunConfig(a)
    \/ \E a \in app.args : CallRun(a)
    \/ CfgInitialize
    \/ CfgNamer
    \/ CfgFlagSet
    \/ CfgParse
    \/ CfgValidate
    \/ RunInitialize
    \/ RunPreRun
    \/ RunAddServices
    \/ \E k \in 1 .. (MaxLen + 1) : SvcStart(k)
    \/ HealthListen
    \/ \E k \in 1 .. (MaxLen + 1) : SvcReturn(k)
    \/ SupFirst
    \/ SupInterrupt
    \/ SupDrain

Spec == Init /\ [][Next]_vars

\* The Config phase up to the end of flag parsing, for the applications of
\* FlagApps.
FlagInit == app \in FlagApps /\ InitGroup

FlagNext ==
    \/ \E u \in app.units : Register(u)
    \/ \E a \in app.args : CallRunConfig(a)
    \/ \E a \in app.args : CallRun(a)
    \/ CfgInitialize
    \/ CfgNamer
    \/ CfgFlagSet
    \/ CfgParse

FlagSpec == FlagInit /\ [][FlagNext]_vars

\* The whole life of the group for the applications of LateApps.
LateInit == app \in LateApps /\ InitGroup

LateSpec == LateInit /\ [][Next]_vars

\* ServeHTTP: a request to the health endpoint; codes is what the checkers
\* other than the health service report, marshalFails whether json.Marshal
\* of the status fails.  The answer is recorded with what each Health()
\* returned (health), what checkServices made of it (status), the status
\* code written (http) and whether the body is the marshalled status.
ServeHTTP ==
    /\ listening
    /\ \E codes \in [checkers \ {HealthUnit} -> HealthCodes], marshalFails \in BOOLEAN :
          LET st == [u \in checkers |-> IF u = HealthUnit THEN hstatus ELSE codes[u]]
              status == CheckServices(st)
          IN  report' = [http    |-> HttpStatus(status.code, marshalFails),
                         health  |-> st,
                         status  |-> status,
                         marshal |-> ~marshalFails]
    /\ UNCHANGED << app, libv, checkers, hstatus, listening, variant, disableHS, lists,
                    configured, hsRegistered, pc, api, argv, gf, dest, idx, lim, err,
                    hasServices, superv, rcResult, runResult, counters, nDereg, nCfg,
                    hist, ret, gone, gname, nlog >>

\* The whole life of the group for the applications of HealthApps, with
\* requests to the health endpoint.
HealthInit == app \in HealthApps /\ InitGroup

HealthNext ==
    \/ \E u \in app.units : Register(u)
    \/ \E a \in app.args : CallRun(a)
    \/ CfgInitialize
    \/ CfgNamer
    \/ CfgFlagSet
    \/ CfgParse
    \/ CfgValidate
    \/ RunInitialize
    \/ RunPreRun
    \/ RunAddServices
    \/ \E k \in 1 .. (MaxLen + 1) : SvcStart(k)
    \/ HealthListen
    \/ \E k \in 1 .. (MaxLen + 1) : SvcReturn(k)
    \/ SupFirst
    \/ SupInterrupt
    \/ SupDrain
    \/ ServeHTTP

HealthSpec == HealthInit /\ [][HealthNext]_vars

\* g.ListUnits(), called by the application between the group's calls.
CallListUnits ==
    /\ pc = "idle"
    /\ listing' = ListUnits(gname, gi, gc, gp, gs)
    /\ UNCHANGED << app, healthv, hserver, lcCtx, sigv, irqv, nDirect, variant,
                    disableHS, lists, configured, hsRegistered, pc, api, argv, gf,
                    dest, idx, lim, err, hasServices, superv, rcResult, runResult,
                    counters, nDereg, nCfg, hist, ret, gone, gname, nlog >>

\* Registration, deregistration and the Config phase for the applications
\* of ListApps, with calls of ListUnits.
ListInit == app \in ListApps /\ InitGroup

ListNext ==
    \/ \E u \in app.units : Register(u)
    \/ \E u \in app.units : Deregister(u)
    \/ \E a \in app.args : CallRunConfig(a)
    \/ CfgInitialize
    \/ CfgNamer
    \/ CfgFlagSet
    \/ CfgParse
    \/ CfgValidate
    \/ CallListUnits

ListSpec == ListInit /\ [][ListNext]_vars

\* The operating system delivers a signal the handler subscribed to:
\* signal.Notify sends without blocking, a signal that finds the buffer
\* full is dropped.
Notify(sig) ==
    /\ SignalUnit \in app.units
    /\ sigCancel # "nil"
    /\ sigLast.sig # "cancel"
    /\ Len(sigq) < SignalCap
    /\ sigq' = Append(sigq, sig)
    /\ UNCHANGED << app, grpv, healthv, hserver, lcCtx, sigCancel, sigLast, irqv,
                    listing, nDirect >>

\* Handler.Serve takes a SIGHUP from h.signal, calls the refresh callback
\* when there is one, and goes round the loop when no error came back.
SigServeHup(k) ==
    /\ pc \in {"wait", "interrupt", "drain"}
    /\ k \in DOMAIN sv
    /\ sv[k] = "serving"
    /\ actors[k] = SignalUnit
    /\ sigCancel # "nil"
    /\ sigq # << >>
    /\ Head(sigq) = "HUP"
    /\ sigq' = Tail(sigq)
    /\ sigLast' = [sig |-> "HUP",
                   cb  |-> IF app.refresh = "none" THEN "nil" ELSE "ok"]
    /\ UNCHANGED << app, grpv, healthv, hserver, lcCtx, sigCancel, irqv,
                    listing, nDirect >>

\* A thread of the application calls Close on the IRQService.
CloseCall(c) ==
    /\ IrqUnit \in app.units
    /\ c \in 1 .. MaxClose
    /\ c <= app.closes
    /\ closers[c] = "idle"
    /\ c > 1 => closers[c - 1] # "idle"
    /\ closers' = [closers EXCEPT ![c] = "called"]
    /\ UNCHANGED << app, grpv, healthv, hserver, lcCtx, sigv, irqCh, irqMu,
                    irqServe, nCfn, listing, nDirect >>

\* irqSvc.Close: i.mu.Lock(); with i.irq nil it returns, otherwise it
\* sends on the unbuffered channel and keeps the mutex while it waits for
\* a receiver.
CloseLock(c) ==
    /\ c \in 1 .. MaxClose
    /\ closers[c] = "called"
    /\ irqMu = 0
    /\ IF irqCh = "nil"
       THEN closers' = [closers EXCEPT ![c] = "done"] /\ UNCHANGED irqMu
       ELSE closers' = [closers EXCEPT ![c] = "sending"] /\ irqMu' = c
    /\ UNCHANGED << app, grpv, healthv, hserver, lcCtx, sigv, irqCh,
                    irqServe, nCfn, listing, nDirect >>

\* The send of Close meets the receive of Serve; Close returns and its
\* deferred Unlock runs.
IrqDeliver ==
    /\ irqServe = "recv"
    /\ irqMu # 0
    /\ closers[irqMu] = "sending"
    /\ irqServe' = "shut"
    /\ closers' = [closers EXCEPT ![irqMu] = "done"]
    /\ irqMu' = 0
    /\ UNCHANGED << app, grpv, healthv, hserver, lcCtx, sigv, irqCh, nCfn,
                    listing, nDirect >>

\* The services of the library an application can hold and stop itself.
DirectUnits == {LifecycleUnit, SignalUnit, IrqUnit}

\* The application calls GracefulStop of one of the library's services
\* itself, from a thread of its own.  A panic there ends the process.
DirectStop(u) ==
    /\ u \in app.units \cap DirectUnits
    /\ pc # "panic"
    /\ nDirect[u] < app.directs
    /\ nDirect' = Inc(nDirect, u)
    /\ IF u = SignalUnit /\ SignalStopPanics
       THEN pc' = "panic" /\ UNCHANGED svcv
       ELSE LibStop(u) /\ UNCHANGED pc
    /\ UNCHANGED << app, healthv, listing, variant, disableHS, lists, configured,
                    hsRegistered, api, argv, gf, dest, idx, lim, err, hasServices,
                    superv, rcResult, runResult, counters, nDereg, nCfg, hist,
                    ret, gone, gname, nlog >>

\* The part_008 group (the one that knows ErrRequestedShutdown) running the
\* applications of LibApps, which register each of their services once.
LibInit == app \in LibApps /\ InitGroup /\ variant = "oss"

LibNext ==
    \/ \E u \in app.units : ~Holds(gs, u) /\ Register(u)
    \/ \E a \in app.args : CallRun(a)
    \/ CfgInitialize
    \/ CfgNamer
    \/ CfgFlagSet
    \/ CfgParse
    \/ CfgValidate
    \/ RunInitialize
    \/ RunPreRun
    \/ RunAddServices
    \/ \E k \in 1 .. (MaxLen + 1) : SvcStart(k)
    \/ \E k \in 1 .. (MaxLen + 1) : SigServeHup(k)
    \/ \E k \in 1 .. (MaxLen + 1) : SvcReturn(k)
    \/ SupFirst
    \/ SupInterrupt
    \/ SupDrain
    \/ \E sig \in Signals : Notify(sig)
    \/ \E c \in 1 .. MaxClose : CloseCall(c)
    \/ \E c \in 1 .. MaxClose : CloseLock(c)
    \/ IrqDeliver
    \/ \E u \in DirectUnits : DirectStop(u)

LibSpec == LibInit /\ [][LibNext]_vars

\* Scheduling.  Every goroutine that can take its next step takes it in
\* the end: the goroutines of the actors start Serve, the supervisor
\* receives, interrupts and drains, a Close that finds the mutex free takes
\* it, a send that has a receiver is delivered.  A Serve returns in the end
\* when its own state makes it return (the library's services; the health
\* service once its listener failed or its server was shut down) or, for a
\* Service of the application, once its GracefulStop was called; nothing
\* makes a healthy HTTP server or an application's Service return before.
MustReturn(k) ==
    /\ k \in DOMAIN sv
    /\ CASE actors[k] = HealthUnit -> hserver \in {"failed", "closed"}
         [] actors[k] \in DirectUnits -> TRUE
         [] OTHER -> nStop[actors[k]] >= 1

SvcReturnDue(k) == MustReturn(k) /\ SvcReturn(k)

Scheduling ==
    /\ \A k \in 1 .. (MaxLen + 1) : WF_vars(SvcStart(k))
    /\ \A k \in 1 .. (MaxLen + 1) : WF_vars(SvcReturnDue(k))
    /\ WF_vars(HealthListen)
    /\ WF_vars(SupFirst)
    /\ WF_vars(SupInterrupt)
    /\ WF_vars(SupDrain)
    /\ \A c \in 1 .. MaxClose : WF_vars(CloseLock(c))
    /\ WF_vars(IrqDeliver)

LibFairSpec == LibSpec /\ Scheduling

HealthFairSpec == HealthSpec /\ Scheduling

\* h.PreRun(), h.register(hcs) for each test checker, go h.Serve(), and
\* requests to the endpoint: the health service outside a group.
ProbePreRun ==
    /\ hstatus = "unset"
    /\ HealthPreRun
    /\ UNCHANGED << app, libv, listening, report, variant, disableHS, lists,
                    configured, hsRegistered, pc, api, argv, gf, dest, idx, lim, err,
                    hasServices, superv, rcResult, runResult, counters, nDereg, nCfg,
                    hist, ret, gone, gname, nlog >>

ProbeRegister(u) ==
    /\ hstatus = "Initializing"
    /\ HealthRegister({u})
    /\ UNCHANGED << app, libv, hstatus, listening, report, variant, disableHS, lists,
                    configured, hsRegistered, pc, api, argv, gf, dest, idx, lim, err,
                    hasServices, superv, rcResult, runResult, counters, nDereg, nCfg,
                    hist, ret, gone, gname, nlog >>

ProbeServe ==
    /\ hstatus = "Initializing"
    /\ HealthServe
    /\ UNCHANGED << app, libv, checkers, report, variant, disableHS, lists,
                    configured, hsRegistered, pc, api, argv, gf, dest, idx, lim, err,
                    hasServices, superv, rcResult, runResult, counters, nDereg, nCfg,
                    hist, ret, gone, gname, nlog >>

ProbeInit == app = ProbeApp /\ InitGroup

ProbeNext ==
    \/ ProbePreRun
    \/ \E u \in app.units : ProbeRegister(u)
    \/ ProbeServe
    \/ ServeHTTP

ProbeSpec == ProbeInit /\ [][ProbeNext]_vars

-----------------------------------------------------------------------------
(* Properties *)

Invoked(f) == \E u \in AllUnits : f[u] > 0

Count(list, u) == Len(SelectSeq(list, LAMBDA x : x = u))

\* Run has returned after handing at least one service to the supervisor.
ServedAndReturned == pc = "done" /\ actors # << >>

\* C1: the phases are strictly ordered: no Validate is invoked once some
\* PreRun or Serve has been invoked, and no PreRun is invoked once some
\* Serve has been invoked; so every PreRun comes after the last Validate
\* and every Serve after the last PreRun.
C1_PhaseOrder ==
    [][ /\ (nValidate' # nValidate => ~Invoked(nPreRun) /\ ~Invoked(nServe))
        /\ (nPreRun' # nPreRun => ~Invoked(nServe)) ]_vars

\* A run that went through a direct RunConfig, then Run, with Validate,
\* PreRun and Serve all invoked.
C1_Witness ==
    /\ pc = "done" /\ nCfg = 1
    /\ Invoked(nValidate) /\ Invoked(nPreRun) /\ Invoked(nServe)

\* C2: GracefulStop is invoked exactly once for each non-nil entry of the
\* service list at hand-over (an entry is one registration: a unit that was
\* registered twice is two services), never more, and on no other unit; so
\* when Run returns from the Serve stage the number of GracefulStop calls
\* equals the number of services handed over.
C2_StopOncePerService ==
    /\ \A u \in AllUnits : nStop[u] <= Count(handed, u)
    /\ (pc = "done" /\ NonNil(handed) # << >>) =>
           \A u \in AllUnits : nStop[u] = Count(handed, u)

\* Run returned after a deregistered service left a nil slot before the one
\* service that was handed over and stopped.
C2_Witness ==
    /\ pc = "done"
    /\ Len(handed) = 2 /\ handed[1] = 0 /\ handed[2] # 0
    /\ nStop[handed[2]] = 1

\* C3: when Run returns from the Serve stage, every service handed to the
\* supervisor has had its Serve started and that Serve has returned.
C3_NoOrphanServe ==
    (pc = "done" /\ NonNil(handed) # << >>) =>
        /\ \A k \in DOMAIN sv : sv[k] = "returned"
        /\ \A u \in AllUnits : nServe[u] = Count(handed, u)
                               /\ nServeRet[u] = nServe[u]

\* Run returned after serving several services.
C3_Witness == ServedAndReturned /\ Len(actors) >= 2

\* An ordinary error of some unit, unrelated to the sentinel errors.
OrdinaryErrors == {Plain(u, "e") : u \in AllUnits}

\* ErrRequestedShutdown of some unit, bare or wrapped.
ShutdownErrors == {Plain(u, b) : u \in AllUnits, b \in {"shutdown", "wshutdown"}}

\* C4: when the first Serve to return returns an error that does not wrap
\* ErrRequestedShutdown, Run returns that error, whatever the other services
\* return afterwards.
C4_FirstErrorWins ==
    (pc = "done" /\ firstRet \in OrdinaryErrors) => runResult = firstRet

\* Run returned the first service's error although a peer returned
\* ErrRequestedShutdown afterwards.
C4_Witness ==
    /\ pc = "done"
    /\ Len(actors) = 2
    /\ firstRet \in OrdinaryErrors
    /\ runResult = firstRet
    /\ lastRet \in ShutdownErrors

\* C5: when the first Serve to return returns nil, every service handed
\* over still receives its GracefulStop and Run returns the synthesized
\* error "run terminated without explicit error condition".
C5_NilServeIsAnError ==
    (pc = "done" /\ firstRet = NilErr) =>
        /\ \A u \in AllUnits : nStop[u] = Count(handed, u)
        /\ runResult = ErrNoExplicit

\* C6: when the first Serve to return returns ErrRequestedShutdown, bare or
\* wrapped, Run returns nil and by then GracefulStop has been invoked
\* exactly once for every service handed over (once per entry of the
\* service list).
C6_RequestedShutdownIsNil ==
    (pc = "done" /\ firstRet \in ShutdownErrors) =>
        /\ runResult = NilErr
        /\ \A u \in AllUnits : nStop[u] = Count(handed, u)

\* Run returned nil after the first of two services returned a wrapped
\* ErrRequestedShutdown and its peer an ordinary error.
C6_Witness ==
    /\ pc = "done"
    /\ firstRet \in {Plain(u, "wshutdown") : u \in AllUnits}
    /\ lastRet \in OrdinaryErrors
    /\ Len(actors) = 2 /\ actors[1] # actors[2]
    /\ runResult = NilErr

\* C7: when the caller registered no Service unit and RunConfig, every
\* Validate and every PreRun succeeded, Run is past its pre-run loop only
\* in the state where it has returned nil: it never waits on a service.
C7_NoServiceReturnsNil ==
    (/\ api = "Run"
     /\ pc \in {"runAdd", "wait", "interrupt", "drain", "done"}
     /\ \A j \in DOMAIN gs : gs[j] \notin UserUnits \cup {0}
     /\ rcResult = NilErr
     /\ preFail.u = 0)
        => (pc \in {"runAdd", "done"} /\ runResult = NilErr)

\* The Validate calls of the Config phase that returned an error.
Failed == SelectSeq(vlog, LAMBDA x : x.r # NilErr)

\* The multi-error holding the errors of Failed in order, as RunConfig
\* returns it.
FailedErrors ==
    MkErr("multi", 0, [i \in 1 .. Len(Failed) |-> Failed[i].r.es[1]], "list")

C9_FirstPreRunFailureAborts ==
    preFail.u # 0 =>
        /\ pc = "done"
        /\ runResult = PreRunError(preFail.u, preFail.r)
        /\ ~Invoked(nServe) /\ ~Invoked(nStop)

\* C10: Run does not return nil when a PreRun returned a non-nil error,
\* nor when a Validate of its own Config phase did.
C10_PhaseErrorsAreErrors ==
    pc = "done" =>
        /\ preFail.u # 0 => runResult # NilErr
        /\ (nCfg = 0 /\ Failed # << >>) => runResult # NilErr

\* The argument names one of --help/-h, --version/-v, --show-rungroup-units.
IsBailToken(t) ==
    IF t.k = "long" THEN t.n \in {"help", "version", "show-rungroup-units"}
    ELSE t.n \in {"h", "v"}

CarriesBail(args) == \E i \in DOMAIN args : IsBailToken(args[i])

\* Every argument names a flag of the merged flag set.
AllKnown(args) ==
    \A i \in DOMAIN args : \E k \in DOMAIN gf : Matches(gf[k], args[i])

\* The Config phase ends with result e: a direct RunConfig returns e, a Run
\* returns r at once; no Validate, PreRun, Serve or GracefulStop has been
\* invoked in it.
ConfigEndsWith(e, r) ==
    /\ rcResult' = e
    /\ pc' \in {"idle", "done"}
    /\ api = "Run" => (pc' = "done" /\ runResult' = r)
    /\ ~Invoked(nValidate') /\ ~Invoked(nPreRun')
    /\ ~Invoked(nServe') /\ ~Invoked(nStop')

\* C11 as stated: whenever the command line carries a bail-early flag, the
\* parse step ends the Config phase with ErrBailEarlyRequest, Run returns
\* nil, and no Validate, PreRun, Serve or GracefulStop is invoked.
C11_BailWheneverCarried ==
    [][ (pc = "cfgParse" /\ CarriesBail(argv)) =>
            ConfigEndsWith(ErrBailEarlyRequest, NilErr) ]_vars

\* C11 amended: the same when, besides, every argument of the command line
\* names a flag of the merged flag set (the full parse succeeds).
C11_BailWhenParsed ==
    [][ (pc = "cfgParse" /\ CarriesBail(argv) /\ AllKnown(argv)) =>
            ConfigEndsWith(ErrBailEarlyRequest, NilErr) ]_vars

\* Run returned nil on a command line with -v and --flagtest, two Config
\* units registered, none validated.
C11_Witness ==
    /\ pc = "done" /\ api = "Run"
    /\ rcResult = ErrBailEarlyRequest /\ runResult = NilErr
    /\ Len(gc) >= 2
    /\ << gc[Len(gc) - 1], "flagtest" >> \in dest
    /\ ~Invoked(nValidate)

\* C12: when some argument of the command line names no flag of the merged
\* flag set, the parse step ends the Config phase with the parse error:
\* RunConfig and Run return it and no Validate, PreRun or Serve is invoked.
C12_UnknownFlagFails ==
    [][ (pc = "cfgParse" /\ ~AllKnown(argv)) =>
            ConfigEndsWith(ErrParse, ErrParse) ]_vars

\* Run returned the parse error for --flagtest, which no registered unit
\* had contributed.
C12_Witness ==
    /\ pc = "done" /\ api = "Run"
    /\ runResult = ErrParse
    /\ gc # << >>
    /\ ~Lookup(gf, "flagtest")
    /\ ~Invoked(nValidate)

\* The long names among the options of unit u.
Offers(u, n) == \E i \in DOMAIN OptionsOf(u) : OptionsOf(u)[i].l = n

\* The slots of the Config list whose unit offers an option named n.
Offerers(n) == {j \in DOMAIN gc : gc[j] # 0 /\ Offers(gc[j], n)}

FirstOfferer(n) == gc[CHOOSE j \in Offerers(n) : \A k \in Offerers(n) : j <= k]

UnitOptionNames == {"flagtest", "verbose", "health-address", "health-endpoint",
                    "log-options"}

\* C13: merging a unit's flag set leaves every flag already in the group
\* flag set as it is, and a unit whose options are all there already adds
\* nothing and does not make the Config phase fail; parsing writes, of the
\* units that offer an option, only the destination of the one registered
\* first.
C13_FirstRegistrationWins ==
    [][ /\ (pc = "cfgFlags" /\ nFlagSet' # nFlagSet) =>
              /\ \A k \in DOMAIN gf : gf'[k] = gf[k]
              /\ \A j \in DOMAIN gc :
                    (nFlagSet'[gc[j]] # nFlagSet[gc[j]]
                     /\ \A i \in DOMAIN OptionsOf(gc[j]) :
                           Lookup(gf, OptionsOf(gc[j])[i].l))
                        => (gf' = gf /\ pc' # "panic")
        /\ pc = "cfgParse" =>
              \A n \in UnitOptionNames :
                 /\ \A u \in AllUnits :
                       << u, n >> \in dest' => u = FirstOfferer(n)
                 /\ (Parse(gf, argv, {}).ok /\ Offerers(n) # {}
                     /\ \E i \in DOMAIN argv : argv[i] = Long(n))
                        => << FirstOfferer(n), n >> \in dest'
      ]_vars

\* Two units offering --flagtest are registered, the command line named it
\* and parsed, and the destination of the first one was written.
C13_Witness ==
    /\ pc = "cfgValidate"
    /\ Len(gc) >= 2
    /\ Cardinality(Offerers("flagtest")) = 2
    /\ << FirstOfferer("flagtest"), "flagtest" >> \in dest

\* The unit's option reuses a reserved long name or a reserved shorthand.
ReusesReserved(o) ==
    \E i \in DOMAIN ReservedOptions :
        \/ ReservedOptions[i].l = o.l
        \/ (o.s # "" /\ ReservedOptions[i].s = o.s)

\* C14: merging a unit's flag set skips every option that reuses a reserved
\* long name or shorthand (no flag of that unit is filed for it), the
\* reserved flags stay as they are and the merge goes through.
C14_ReservedNamesWin ==
    [][ (pc = "cfgFlags" /\ nFlagSet' # nFlagSet) =>
          \A j \in DOMAIN gc :
            nFlagSet'[gc[j]] # nFlagSet[gc[j]] =>
              /\ \A i \in DOMAIN OptionsOf(gc[j]) :
                    ReusesReserved(OptionsOf(gc[j])[i]) =>
                       ~\E k \in DOMAIN gf' :
                            gf'[k].o = gc[j] /\ gf'[k].l = OptionsOf(gc[j])[i].l
              /\ \A k \in DOMAIN ReservedFlags : gf'[k] = ReservedFlags[k]
              /\ pc' # "panic"
      ]_vars

\* The step appended u to list.
AppendedTo(old, new, u) == new = Append(old, u)

\* C15: the boolean Register returns for a unit is true exactly when the
\* call appended the unit to at least one of the five phase lists, before
\* and after the group is configured.
C15_RegisterReports ==
    [][ (ret'.op = "Register" /\ (ret' # ret \/ lists' # lists)) =>
          /\ ret'.v <=> \/ AppendedTo(gi, gi', ret'.u)
                        \/ AppendedTo(gn, gn', ret'.u)
                        \/ AppendedTo(gc, gc', ret'.u)
                        \/ AppendedTo(gp, gp', ret'.u)
                        \/ AppendedTo(gs, gs', ret'.u)
          /\ ~ret'.v => lists' = lists
      ]_vars

\* Register of a plain Config unit on a configured group returned false,
\* after a Register of the same unit before RunConfig had slotted it.
C15_Witness ==
    /\ configured
    /\ ret = [op |-> "Register", u |-> 6, v |-> FALSE]
    /\ Count(gc, 6) = 1

\* list, with exactly the slots that hold u set to nil.
WithoutUnit(list, u) == [j \in DOMAIN list |-> IF list[j] = u THEN 0 ELSE list[j]]

RegisteredLateOnly(u) ==
    /\ Caps(u) = {"I", "N", "C", "P", "S"}
    /\ Holds(handed, u)
    /\ ~Holds(gc, u) /\ ~Holds(gn, u)
    /\ nDereg = 0

\* C16: when Run has come to its end after handing the services over, a
\* unit all of whose registrations were made after configured was set has
\* never been asked for GroupName, FlagSet or Validate, and its Initialize,
\* PreRun and Serve have each been invoked.
C16_LateUnitsHonoured ==
    \A u \in AllUnits :
        (pc = "done" /\ RegisteredLateOnly(u)) =>
            /\ nName[u] = 0 /\ nFlagSet[u] = 0 /\ nValidate[u] = 0
            /\ nInit[u] >= 1 /\ nPreRun[u] >= 1 /\ nServe[u] >= 1

\* The step keeps every slot of the list: it holds what it held or nil, and
\* the list is no shorter.
SlotsKept(old, new) ==
    /\ Len(new) >= Len(old)
    /\ \A j \in DOMAIN old : new[j] = old[j] \/ new[j] = 0

\* The list a loop of the caller's thread walks, and the counter of its
\* callback.
LoopList ==
    CASE pc \in {"cfgInit", "runInit"} -> gi
      [] pc = "cfgNamer" -> gn
      [] pc \in {"cfgFlags", "cfgValidate"} -> gc
      [] pc = "runPre" -> gp
      [] OTHER -> << >>

\* A step of a loop goes to the first non-nil slot at or after the loop
\* index, and the services are fed to the supervisor in slot order.
InSlotOrder ==
    /\ (pc' = pc /\ idx' # idx /\ LoopList # << >>) =>
          /\ idx' > idx
          /\ idx' - 1 \in DOMAIN LoopList
          /\ LoopList[idx' - 1] # 0
          /\ \A k \in idx .. (idx' - 2) : LoopList[k] = 0
    /\ (pc = "runAdd" /\ pc' # "runAdd") =>
          \E f \in [DOMAIN actors' -> DOMAIN gs] :
             /\ \A k \in DOMAIN actors' : gs[f[k]] = actors'[k]
             /\ \A k, m \in DOMAIN actors' : k < m => f[k] < f[m]
             /\ \A j \in DOMAIN gs : gs[j] # 0 => \E k \in DOMAIN actors' : f[k] = j

\* C17 as stated: no step removes, shifts or renumbers a slot of any of
\* the five phase lists (a slot keeps its unit or becomes nil, new slots
\* come at the end), and the callbacks are invoked in slot order.
C17_SlotsNeverMove ==
    [][ /\ SlotsKept(gi, gi') /\ SlotsKept(gn, gn') /\ SlotsKept(gc, gc')
        /\ SlotsKept(gp, gp') /\ SlotsKept(gs, gs')
        /\ InSlotOrder ]_vars

\* C17 amended: the same, except that RunConfig of the variant with the
\* logOptions unit puts that unit in front of the Config list, which moves
\* every Config slot up by one and keeps their order.
C17_SlotsMoveOnlyForLogOptions ==
    [][ /\ SlotsKept(gi, gi') /\ SlotsKept(gn, gn')
        /\ SlotsKept(gp, gp') /\ SlotsKept(gs, gs')
        /\ \/ SlotsKept(gc, gc')
           \/ (variant = "hs" /\ pc = "cfgNamer" /\ gc' = << LogUnit >> \o gc)
        /\ InSlotOrder ]_vars

\* The logOptions unit stands in front of a unit registered before it, a
\* PreRunner in the second slot was invoked after the first slot had been
\* set to nil, and Run has come to its end.
C17_Witness ==
    /\ variant = "hs"
    /\ Len(gc) = 3 /\ gc[1] = LogUnit /\ gc[3] # 0
    /\ Len(gp) = 2 /\ gp[1] = 0 /\ gp[2] # 0 /\ nPreRun[gp[2]] = 1
    /\ pc = "done"

\* C18: a unit that was deregistered before the services were handed over
\* (and not registered again) gets no callback from then on; no callback
\* count ever goes down; and the units that stay go through their phases:
\* a Validate or PreRun loop that comes to its end has invoked every unit
\* still in its list, and a Run that ends after serving has served and
\* stopped every entry of the service list it handed over.
C18_DeregisteredUnitsAreLeftAlone ==
    [][ /\ \A u \in gone :
              /\ nInit'[u] = nInit[u] /\ nName'[u] = nName[u]
              /\ nFlagSet'[u] = nFlagSet[u] /\ nValidate'[u] = nValidate[u]
              /\ nPreRun'[u] = nPreRun[u] /\ nServe'[u] = nServe[u]
              /\ nStop'[u] = nStop[u]
        /\ \A u \in AllUnits :
              /\ nInit'[u] >= nInit[u] /\ nValidate'[u] >= nValidate[u]
              /\ nPreRun'[u] >= nPreRun[u] /\ nServe'[u] >= nServe[u]
              /\ nStop'[u] >= nStop[u]
        /\ (pc = "cfgValidate" /\ pc' # "cfgValidate") =>
              \A j \in 1 .. lim : gc[j] # 0 => nValidate[gc[j]] >= 1
        /\ (pc = "runPre" /\ pc' = "runAdd") =>
              \A j \in 1 .. lim : gp[j] # 0 => nPreRun[gp[j]] >= 1
        /\ (pc # "done" /\ pc' = "done" /\ actors' # << >>) =>
              \A u \in AllUnits \ gone :
                 Holds(handed, u) =>
                    (nServe'[u] = Count(handed, u) /\ nStop'[u] = Count(handed, u))
      ]_vars

\* A PreRunner deregistered a service; Run served and stopped another
\* service and came to its end, and the deregistered one was never served.
C18_Witness ==
    /\ pc = "done"
    /\ \E u \in gone :
          /\ "S" \in Caps(u) /\ nServe[u] = 0 /\ nStop[u] = 0
          /\ \E x \in AllUnits \ gone : nPreRun[x] >= 1
    /\ \E x \in AllUnits \ gone : nServe[x] = 1 /\ nStop[x] = 1

\* C19: a Deregister made while the services run changes nothing in the
\* supervisor and invokes nothing; when Run has come to its end, a unit
\* that was handed over and deregistered afterwards has been served and
\* stopped once for each of its entries in the handed service list.
C19_LateDeregisterKeepsService ==
    /\ [][ (pc \in {"wait", "interrupt", "drain"} /\ nDereg' # nDereg) =>
              (superv' = superv /\ counters' = counters /\ pc' = pc) ]_vars
    /\ [](\A u \in AllUnits :
             (pc = "done" /\ Holds(handed, u) /\ ~Holds(gs, u)) =>
                 (nServe[u] = Count(handed, u) /\ nStop[u] = Count(handed, u)))

\* A service deregistered after the hand-over was served and stopped once,
\* next to another service.
C19_Witness ==
    /\ pc = "done"
    /\ Len(handed) = 2
    /\ \E u \in AllUnits :
          /\ Count(handed, u) = 1 /\ ~Holds(gs, u)
          /\ nServe[u] = 1 /\ nStop[u] = 1

\* The caller's thread is inside the Config phase.
InConfigPhase ==
    pc \in {"cfgInit", "cfgNamer", "cfgFlags", "cfgParse", "cfgValidate"}

\* C24: in a Config phase GroupName is invoked only in the Namer loop, when
\* every Initializer slot has been initialized and no unit flag has been
\* merged yet; the calls go by ascending slot, each to the unit of its
\* slot, one per Namer slot once the FlagSet loop has begun; and the name
\* every call passed is the group's Name, which stays what it was then.
C24_NamersGetTheNameOnce ==
    /\ [][ /\ nName' # nName =>
                 /\ pc = "cfgNamer"
                 /\ \A j \in DOMAIN gi : gi[j] = 0
                 /\ gf = ReservedFlags
                 /\ \A u \in AllUnits : nFlagSet'[u] = nFlagSet[u]
           /\ nFlagSet' # nFlagSet =>
                 \A j \in DOMAIN gn :
                    gn[j] # 0 => \E i \in DOMAIN nlog : nlog[i].j = j
         ]_vars
    /\ [](/\ \A i1, i2 \in DOMAIN nlog : i1 < i2 => nlog[i1].j < nlog[i2].j
          /\ \A i \in DOMAIN nlog :
                /\ nlog[i].j \in DOMAIN gn
                /\ gn[nlog[i].j] \in {nlog[i].u, 0}
                /\ nlog[i].name = gname
          /\ pc \in {"cfgFlags", "cfgParse", "cfgValidate"} =>
                \A j \in DOMAIN gn :
                   gn[j] # 0 => \E i \in DOMAIN nlog : nlog[i].j = j)

\* A Namer registered twice got the name of the command line twice, after
\* its Initialize calls and before its FlagSet calls.
C24_Witness ==
    /\ pc = "cfgValidate"
    /\ Len(nlog) = 2 /\ nlog[2].name = NameArg
    /\ nInit[nlog[1].u] = 2
    /\ nFlagSet[nlog[1].u] = 2

\* The command line carries --name X or -n X.
CarriesName(args) ==
    \E i \in DOMAIN args : args[i] = Long("name") \/ args[i] = Short("n")

\* C25: whenever the command line of a Config phase carries --name X or
\* -n X, at any position, the group's Name is X from the partial parse on
\* and every Namer receives X.
C25_NameResolvedEarly ==
    (InConfigPhase /\ CarriesName(argv)) =>
        /\ gname = NameArg
        /\ \A i \in DOMAIN nlog : nlog[i].name = NameArg


-----------------------------------------------------------------------------
(* C21, C22, C23, C26 *)

InRunPhase == pc \in {"runPre", "runAdd", "wait", "interrupt", "drain"}

Registered(u) == Holds(gn, u) \/ Holds(gc, u) \/ Holds(gp, u) \/ Holds(gs, u)

\* C21: once the Run phase has called its Initializers, every registered
\* Initializer (nothing having been deregistered) has had Initialize called
\* once or twice, never zero times and never three times or more.
C21_InitializedOnceOrTwice ==
    (InRunPhase /\ nDereg = 0)
        => \A u \in app.units :
              ("I" \in Caps(u) /\ Registered(u)) => nInit[u] \in {1, 2}

HealthCount == IF variant = "hs" /\ ~disableHS THEN 1 ELSE 0

\* C22: once the group is configured, however many times the Config phase
\* was entered, the health service is once in each of the config, pre-run
\* and serve lists unless it is disabled (hs variant), and in none otherwise.
C22_OneHealthService ==
    configured =>
        /\ Count(gc, HealthUnit) = HealthCount
        /\ Count(gp, HealthUnit) = HealthCount
        /\ Count(gs, HealthUnit) = HealthCount

C22_Witness ==
    /\ variant = "hs" /\ ~disableHS
    /\ nCfg = MaxCfg + 1
    /\ pc = "idle"
    /\ Count(gs, HealthUnit) = 1

\* C23: Run on an unconfigured group enters the Config phase with arguments
\* of the call, Run on a configured group goes straight to the Run phase and
\* calls no FlagSet and no Validate; a Config phase that ends without error
\* has called FlagSet and Validate once per registration, and no
\* registration ever gets more (RunConfig having been called once at most
\* and nothing having been deregistered).
C23_ConfigPhaseRunsOnce ==
    /\ [][ (pc = "idle" /\ api' = "Run")
             => IF configured
                THEN /\ pc' = "runInit"
                     /\ UNCHANGED << nFlagSet, nValidate, gf, dest, argv, nCfg >>
                ELSE /\ pc' = "cfgInit"
                     /\ configured'
                     /\ argv' \in app.args ]_vars
    /\ [][ (pc = "cfgValidate" /\ pc' # pc /\ rcResult' = NilErr
              /\ nCfg <= 1 /\ nDereg = 0)
             => \A u \in DOMAIN nFlagSet :
                   /\ nFlagSet'[u] = Count(gc, u)
                   /\ nValidate'[u] = Count(gc, u) ]_vars
    /\ []((nCfg <= 1 /\ nDereg = 0) => \A u \in DOMAIN nFlagSet :
                           /\ nFlagSet[u] <= Count(gc, u)
                           /\ nValidate[u] <= Count(gc, u))

C23_Witness ==
    /\ api = "Run" /\ nCfg = 1 /\ pc = "runPre"
    /\ rcResult = NilErr /\ nDereg = 0
    /\ \E u \in app.units : nFlagSet[u] = 1 /\ nValidate[u] = 1 /\ Count(gc, u) = 1

\* C26: GracefulStop is called only by the supervisor's interrupt round,
\* which starts after a Serve has returned, and the supervisor waits for the
\* remaining services only when every actor has been interrupted.
C26_StopAfterFirstReturn ==
    /\ [][ nStop' # nStop => (pc = "interrupt" /\ firstRet # NoneYet) ]_vars
    /\ [](pc \in {"drain"} => \A u \in DOMAIN nStop : nStop[u] = Count(actors, u))
    /\ [](firstRet = NoneYet => \A u \in DOMAIN nStop : nStop[u] = 0)

C26_Witness ==
    /\ pc = "drain"
    /\ Len(actors) = 2
    /\ \A k \in DOMAIN actors : nStop[actors[k]] >= 1
    /\ \E k \in DOMAIN sv : sv[k] # "returned"


-----------------------------------------------------------------------------
(* C27, C28, C29, C30 *)

Answered == report.http # 0

\* C27: for a non-empty set of checkers, the aggregate of an answer is AllUp
\* exactly when every checker reported Running, AllDown exactly when none
\* did, Partial otherwise, and the per-service map has each registered
\* checker with the code it reported.
C27_AggregateOfCodes ==
    (Answered /\ checkers # {}) =>
        LET h == report.health
            up == {u \in DOMAIN h : h[u] = "Running"}
            code == report.status.code
        IN  /\ DOMAIN h = checkers
            /\ report.status.services = h
            /\ code \in {"AllUp", "AllDown", "Partial"}
            /\ code = "AllUp" <=> up = DOMAIN h
            /\ code = "AllDown" <=> up = {}
            /\ code = "Partial" <=> (up # {} /\ up # DOMAIN h)

C27_Witness ==
    /\ Answered
    /\ Cardinality(checkers) = 3
    /\ report.status.code = "Partial"
    /\ \E u, v \in checkers :
          report.status.services[u] = "Running"
          /\ report.status.services[v] = "ShuttingDown"

\* C28: an answer is 200 exactly when the aggregate is AllUp, 503 when it is
\* AllDown or Partial, unless marshalling the status failed; it is 500 only
\* when marshalling failed.
C28_StatusCodeOfAggregate ==
    Answered =>
        /\ report.http \in {200, 503, 500}
        /\ report.http = 500 => ~report.marshal
        /\ report.http = 200 => report.status.code = "AllUp"
        /\ report.marshal =>
              /\ report.status.code = "AllUp" => report.http = 200
              /\ report.status.code \in {"AllDown", "Partial"} => report.http = 503

C28_Witness ==
    /\ Answered
    /\ report.marshal
    /\ report.http = 503
    /\ report.status.code = "Partial"

\* C29: every answer of the health endpoint of a group has one entry for
\* each registered unit that is a Checker, whatever else the unit is, and
\* one for the health service.
C29_EveryCheckerReported ==
    (Answered /\ InRunPhase) =>
        DOMAIN report.status.services
            = {u \in app.units \cup {HealthUnit} : IsChecker(u) /\ Registered(u)}

\* C30: the status of the health service is Initializing from its PreRun
\* until its Serve listens, Running once it listens, and ShuttingDown in
\* every state after its GracefulStop was called.
C30_StatusNeverGoesBack ==
    /\ nStop[HealthUnit] >= 1 => hstatus = "ShuttingDown"
    /\ (nStop[HealthUnit] = 0 /\ nPreRun[HealthUnit] >= 1) =>
          hstatus = IF nServe[HealthUnit] >= 1 /\ app.listens
                    THEN "Running" ELSE "Initializing"


-----------------------------------------------------------------------------
(* C38, C39, C40 *)

\* C38: a PreRun or a Serve is invoked only when the latest Config phase of
\* the group has completed without error and without a bail-early request.
C38_NothingStartsUnconfigured ==
    [][ (nPreRun' # nPreRun \/ nServe' # nServe)
          => (configured /\ rcResult = NilErr) ]_vars

\* C39: with DisableHealthService set, no phase list ever holds the health
\* service and Run never fails in its PreRun and service loops.
C39_DisabledHealthServiceIsSafe ==
    (variant = "hs" /\ disableHS) =>
        /\ ~Registered(HealthUnit)
        /\ ~Holds(gi, HealthUnit)
        /\ pc # "panic"

\* C40: when a PreRun returns an error after its unit has deregistered
\* itself, Run ends there and returns the pre-run error that names the unit.
C40_SelfDeregisteredPreRunError ==
    [][ (pc = "runPre" /\ preFail' # preFail /\ ~Holds(gp', preFail'.u))
          => /\ pc' = "done"
             /\ runResult' # NilErr
             /\ runResult'.k = "prerun"
             /\ runResult'.u = preFail'.u ]_vars


-----------------------------------------------------------------------------
(* C35 *)

PhaseHeaders == {"initialize", "config", "pre-run", "serve"}

PhaseList(h) ==
    CASE h = "initialize" -> gi
      [] h = "config"     -> gc
      [] h = "pre-run"    -> gp
      [] h = "serve"      -> gs

SectionsOf(h) == {j \in DOMAIN listing.body : listing.body[j].h = h}

\* C35: an inventory taken of the group as it stands has, for each of the
\* four phases, every non-null entry of the list once under the header of
\* the phase, in slot order, and no nulled slot; its tag is svc exactly when
\* the serve list has a non-null entry, cli otherwise.
C35_InventoryOfNonNullEntries ==
    [][ listing' # listing =>
          /\ \A h \in PhaseHeaders :
                /\ Cardinality(SectionsOf(h)') <= 1
                /\ \A j \in SectionsOf(h)' :
                      LET names == listing'.body[j].names IN
                      /\ \A u \in AllUnits : Count(names, u) = Count(PhaseList(h), u)
                      /\ Count(names, 0) = 0
                      /\ names = NonNil(PhaseList(h))
                /\ (SectionsOf(h)' = {}) => PhaseList(h) = << >>
          /\ listing'.tag = IF \E k \in DOMAIN gs : gs[k] # 0 THEN "svc" ELSE "cli" ]_vars

C35_Witness ==
    /\ listing.tag = "cli"
    /\ gs = << 0 >>
    /\ \E j \in DOMAIN listing.body :
          listing.body[j].h = "serve" /\ listing.body[j].names = << >>
    /\ \E j \in DOMAIN listing.body :
          listing.body[j].h = "pre-run" /\ listing.body[j].names = << 5 >>

-----------------------------------------------------------------------------
(* C33 *)

\* The GracefulStop calls unit u has had, from the supervisor and from the
\* application.
Stops(u) == nStop[u] + nDirect[u]

\* C33: the lifecycle tracker's context is cancelled exactly in the states
\* after a GracefulStop of the tracker (never before the first, always
\* after it); its Serve does not return while the context is live, and
\* when it returns it returns nil.
C33_ContextFollowsGracefulStop ==
    /\ [](lcCtx = "cancelled" <=> Stops(LifecycleUnit) >= 1)
    /\ [][ nServeRet'[LifecycleUnit] # nServeRet[LifecycleUnit]
             => (lcCtx = "cancelled" /\ lastRet' = NilErr) ]_vars

\* C33 witness: the tracker's Serve was blocked until the supervisor
\* stopped it and has returned since.
C33_Witness ==
    /\ nServe[LifecycleUnit] = 1
    /\ nStop[LifecycleUnit] = 1
    /\ nDirect[LifecycleUnit] = 0
    /\ nServeRet[LifecycleUnit] = 1
    /\ lcCtx = "cancelled"

-----------------------------------------------------------------------------
(* C32 *)

SignalReturns == nServeRet'[SignalUnit] # nServeRet[SignalUnit]

\* Serve took the signal at the head of its channel in this step.
SignalTaken ==
    /\ Len(sigq') < Len(sigq)
    /\ sigLast'.sig # "cancel"
    /\ nPreRun' = nPreRun

\* C32: when the signal handler's Serve takes a termination signal from
\* its channel it returns an error wrapping ErrSignal; when it takes a
\* SIGHUP it calls the refresh callback if there is one, returns the
\* wrapped error of the callback when that is not nil and goes on serving
\* otherwise; it returns nil only once GracefulStop was called and for no
\* other reason than these; and a Run whose first service to return was
\* the handler with a termination signal returns that error.
C32_SignalHandlerServe ==
    [][ /\ (SignalTaken /\ Head(sigq) \in TermSignals)
             => (SignalReturns /\ lastRet' = ErrSignal)
        /\ (SignalTaken /\ Head(sigq) = "HUP")
             => /\ sigLast'.sig = "HUP"
                /\ (app.refresh = "none" <=> sigLast'.cb = "nil")
                /\ sigLast'.cb \in {"nil", "ok", "err"}
                /\ (sigLast'.cb = "err" <=> SignalReturns)
                /\ (SignalReturns => lastRet' = ErrRefresh)
        /\ SignalReturns
             => \/ SignalTaken
                \/ (lastRet' = NilErr /\ sigCancel = "closed"
                       /\ Stops(SignalUnit) >= 1)
        /\ (pc' = "done" /\ pc # "done" /\ firstRet = ErrSignal)
             => runResult' = ErrSignal ]_vars

\* C32 witness: the handler took a termination signal while serving, the
\* supervisor stopped the group and Run has returned the handler's error.
C32_Witness ==
    /\ pc = "done"
    /\ firstRet = ErrSignal
    /\ runResult = ErrSignal
    /\ sigLast.sig \in TermSignals
    /\ nStop[SignalUnit] = 1

-----------------------------------------------------------------------------
(* C34 *)

Serving == pc \in {"wait", "interrupt", "drain"}

\* The group runs the IRQService, next to nothing but library services,
\* and the application makes one Close call and stops no service itself.
OneCloseApp ==
    /\ IrqUnit \in Range(actors)
    /\ Count(actors, IrqUnit) = 1
    /\ app.units \subseteq {IrqUnit, LifecycleUnit}
    /\ app.closes = 1
    /\ app.directs = 0

\* C34: in a running group, a Serve of the IRQService that received what
\* Close sent returns ErrRequestedShutdown, and a Run that ends on it
\* returns nil after the service's GracefulStop was called; and when one
\* Close call is made, before Serve has started or after, Serve does
\* return ErrRequestedShutdown, the Close returns and Run returns nil.
C34_CloseStopsTheGroup ==
    /\ [][ (nServeRet'[IrqUnit] # nServeRet[IrqUnit] /\ irqServe = "shut")
             => lastRet' = ErrRequestedShutdown ]_vars
    /\ [][ (pc' = "done" /\ pc # "done" /\ first = ErrRequestedShutdown)
             => (runResult' = NilErr /\ nStop[IrqUnit] >= 1) ]_vars
    /\ ((Serving /\ OneCloseApp /\ closers[1] # "idle")
           ~> (/\ pc = "done" /\ runResult = NilErr
               /\ firstRet = ErrRequestedShutdown
               /\ irqServe = "retShut"
               /\ closers[1] = "done"
               /\ nStop[IrqUnit] = 1))

\* C34 witness: the one Close was delivered to Serve, the supervisor
\* stopped the service (one call of the cleanup function) and Run has
\* returned nil.
C34_Witness ==
    /\ OneCloseApp
    /\ pc = "done" /\ runResult = NilErr
    /\ firstRet = ErrRequestedShutdown
    /\ closers[1] = "done"
    /\ nStop[IrqUnit] = 1
    /\ nCfn = 1

-----------------------------------------------------------------------------
(* C31 *)

\* C31: a GracefulStop of a library service that was stopped before does
\* not fail and leaves the service as the first call left it.
C31_GracefulStopIdempotent ==
    [][ \A u \in DirectUnits :
          (nStop'[u] + nDirect'[u] > Stops(u) /\ Stops(u) >= 1)
             => /\ pc' # "panic"
                /\ lcCtx' = lcCtx /\ sigCancel' = sigCancel /\ irqCh' = irqCh ]_vars

-----------------------------------------------------------------------------
(* C37 *)

\* C37: while the group runs an IRQService, every Close that was called
\* returns in the end, and once a Serve has returned the supervisor gets
\* through every GracefulStop and Run returns.
C37_TeardownCompletes ==
    /\ \A c \in 1 .. MaxClose :
          (Serving /\ IrqUnit \in Range(actors) /\ closers[c] = "called")
             ~> (closers[c] = "done")
    /\ (Serving /\ IrqUnit \in Range(actors) /\ firstRet # NoneYet)
          ~> (pc = "done")

-----------------------------------------------------------------------------
(* C36 *)

\* C36: once a Serve has returned in a group that runs the health service,
\* the health service's Serve returns too and Run returns.
C36_HealthTeardownCompletes ==
    (Serving /\ HealthUnit \in Range(actors) /\ firstRet # NoneYet)
        ~> (pc = "done" /\ nServeRet[HealthUnit] = 1)

=============================================================================
